---- MODULE Spec2Model ----
(***************************************************************************)
(* State-machine model of the animation add-on:                            *)
(*   - animation_presets.py : Apply Preset and its twelve preset handlers, *)
(*     Reset Animation, the cleanup timers of the copy presets;            *)
(*   - curve_animation.py   : Apply Curve Animation, its per-object loop   *)
(*     and the loop policies (Repeat / Ping Pong / Offset);                *)
(*   - utils.py             : insert_keyframe, clear_keyframes,            *)
(*     set_interpolation.                                                  *)
(*                                                                         *)
(* Numbers.  The code computes frames with Python floats (IEEE-754         *)
(* binary64) and truncates with int().  A decimal fraction of the preset   *)
(* tables is held as a record [pct, err]: the double it denotes is         *)
(*        pct/100 - err/(25 * 2^56).                                       *)
(* pct is the fraction in hundredths and err the (signed) distance of the  *)
(* double from the decimal, so that products and sums round as they do in  *)
(* the interpreter.  Scale and location values are in hundredths, angles   *)
(* are the degree arguments of math.radians, speeds are in 1/256, offset   *)
(* factors in 1/8 (all exactly representable, so their arithmetic is       *)
(* exact).                                                                 *)
(***************************************************************************)
EXTENDS Integers, Sequences, FiniteSets, TLC

(***************************************************************************)
(* Bounds of the model.                                                    *)
(***************************************************************************)
MaxSelected == 2
MaxFrame == 2
MaxTimers == 2
MaxAngle == 360
MaxPreviews == 1
MaxConstraints == 2

(***************************************************************************)
(* IEEE-754 binary64 arithmetic on the values the code computes with.      *)
(***************************************************************************)
RECURSIVE Pow2(_)
Pow2(n) == IF n <= 0 THEN 1 ELSE 2 * Pow2(n - 1)

RECURSIVE Log2Floor(_)
Log2Floor(n) == IF n <= 1 THEN 0 ELSE 1 + Log2Floor(n \div 2)

IsPow2(n) == n = Pow2(Log2Floor(n))

\* Exponent E of the binade [2^E, 2^(E+1)) that holds the doubles just
\* below the integer n >= 1.
ExpBelow(n) == IF IsPow2(n) THEN Log2Floor(n) - 1 ELSE Log2Floor(n)

\* err of the double nearest to the decimal literal pct/100.
ReprErr(pct) ==
    CASE pct = 0   -> 0
      [] pct = 20  -> -20
      [] pct = 30  -> 20
      [] pct = 40  -> -40
      [] pct = 50  -> 0
      [] pct = 60  -> 40
      [] pct = 70  -> 80
      [] pct = 80  -> -80
      [] pct = 85  -> 40
      [] pct = 90  -> -40
      [] pct = 92  -> -72
      [] pct = 100 -> 0
      [] pct = 110 -> -160
      [] pct = 120 -> 80
      [] pct = 140 -> 160

\* Parity of the 53-bit significand of the double nearest to pct/100.
MantOdd(pct) ==
    CASE pct \in {0, 20, 40, 50, 70, 80, 100, 110, 140} -> 0
      [] pct \in {30, 60, 85, 90, 92, 120} -> 1

\* A float literal of the source, e.g. 0.7 is Literal(70).
Literal(pct) == [pct |-> pct, err |-> ReprErr(pct)]

\* Spacing of the doubles around pct/100 - err/(25*2^56), in err units.
Ulp(pct, err) ==
    LET below(th) == pct < th \/ (pct = th /\ err > 0)
    IN  IF below(25) THEN 50
        ELSE IF below(50) THEN 100
        ELSE IF below(100) THEN 200
        ELSE IF below(200) THEN 400
        ELSE 800

\* Round-to-nearest, ties-to-even, of the real pct/100 - err/(25*2^56).
FloatRound(pct, err) ==
    IF pct = 0 THEN [pct |-> 0, err |-> 0]
    ELSE LET U   == Ulp(pct, err)
             x   == err - ReprErr(pct)
             lo  == IF x >= 0 THEN x \div U ELSE -((-x + U - 1) \div U)
             rem == x - lo * U
             k   == IF 2 * rem > U THEN lo + 1
                    ELSE IF 2 * rem = U /\ (MantOdd(pct) + lo) % 2 = 1
                         THEN lo + 1
                    ELSE lo
         IN  [pct |-> pct, err |-> ReprErr(pct) + k * U]

\* a + b on floats.
FloatAdd(a, b) == FloatRound(a.pct + b.pct, a.err + b.err)

\* a * i for a float a and a small integer i >= 0.
FloatScale(a, i) == FloatRound(a.pct * i, a.err * i)

\* a <= 1.0 on floats.
FloatLeqOne(a) == a.pct < 100 \/ (a.pct = 100 /\ a.err >= 0)

\* int(d * a) for an integer d >= 0 and a float a >= 0: the product is
\* rounded to the nearest double and then truncated.  When d*pct/100 is an
\* integer n and a lies below its decimal, the exact product lies below n
\* by d*err/(25*2^56); it rounds back up to n unless that distance exceeds
\* half the spacing 2^(E-52) of the doubles below n.
IntMul(d, a) ==
    LET n == (d * a.pct) \div 100
    IN  IF (d * a.pct) % 100 # 0 \/ n = 0 \/ a.err <= 0 THEN n
        ELSE IF d * a.err > 25 * Pow2(ExpBelow(n) + 3) THEN n - 1
        ELSE n

(***************************************************************************)
(* State.                                                                  *)
(***************************************************************************)
VARIABLES
    preset_enum,        \* props.preset_enum
    animation_speed,    \* props.animation_speed, in 1/256
    animation_easing,   \* props.animation_easing
    start_frame,        \* props.start_frame
    frame_current,      \* context.scene.frame_current
    selected_objects,   \* context.selected_objects, in order
    objects,            \* bpy.data.objects: id -> object
    timers,             \* bpy.app.timers: the cleanups not yet run
    settings,           \* context.scene.curve_animation_props
    animation_duration, \* context.scene.animation_duration
    show_animation_paths, \* context.scene.show_animation_paths
    frame_range,        \* context.scene.frame_start, frame_end
    curve,              \* the curve object of settings.curve_enum
    run,                \* CURVE_OT_ApplyCurveAnimation.execute in progress;
                        \* run.errors: an ERROR was reported
    result,             \* what the last operator returned
    preview,            \* CURVE_OT_PreviewAnimation.execute in progress
    is_animation_playing, \* bpy.context.screen.is_animation_playing
    active_object,      \* context.active_object, 0 for None
    aac                 \* context.scene.aac_target_curve (0 for None),
                        \* aac_start_frame, aac_end_frame, aac_auto_orient

presetVars == <<preset_enum, animation_speed, animation_easing, start_frame>>

curveVars == <<settings, animation_duration, show_animation_paths,
               frame_range, curve, run>>

previewVars == <<preview, is_animation_playing>>

aacVars == <<active_object, aac>>

vars == <<preset_enum, animation_speed, animation_easing, start_frame,
          frame_current, selected_objects, objects, timers, settings,
          animation_duration, show_animation_paths, frame_range, curve, run,
          result, preview, is_animation_playing, active_object, aac>>

(***************************************************************************)
(* utils.py                                                                *)
(***************************************************************************)
Paths == {"location", "rotation_euler", "scale"}

\* One keyframe_insert: a keyframe point of the fcurve of data_path.  keys
\* holds the keyframe_insert calls in the order they were made.
KeyPoint(data_path, frame, value) ==
    [data_path |-> data_path, frame |-> frame, value |-> value,
     interpolation |-> "BEZIER", easing |-> "AUTO", handle_type |-> "AUTO"]

insert_keyframe(obj, data_path, frame, value) ==
    [obj EXCEPT ![data_path] = value,
                !.keys = Append(@, KeyPoint(data_path, frame, value))]

\* fcurve.keyframe_points of the fcurve of data_path after the calls of keys:
\* keyframe_insert on a frame that already has a point replaces that point,
\* so the point of a frame is the one of the last call on that frame.
keyframe_points(keys, data_path) ==
    {keys[j] : j \in {i \in DOMAIN keys :
        /\ keys[i].data_path = data_path
        /\ \A l \in DOMAIN keys :
              (l > i /\ keys[l].data_path = data_path) =>
                  keys[l].frame # keys[i].frame}}

\* obj.animation_data_clear(): the fcurves go, and their modifiers with them.
animation_data_clear(obj) == [obj EXCEPT !.keys = <<>>, !.fmodifiers = {}]

clear_keyframes(obj) == animation_data_clear(obj)

set_interpolation(obj, interpolation_type) ==
    [obj EXCEPT !.keys =
        [k \in DOMAIN @ |-> [@[k] EXCEPT !.interpolation = interpolation_type]]]

(***************************************************************************)
(* Helpers of the preset handlers.                                         *)
(***************************************************************************)
RECURSIVE InsertAll(_, _)
InsertAll(obj, calls) ==
    IF calls = <<>> THEN obj
    ELSE InsertAll(insert_keyframe(obj, Head(calls)[1], Head(calls)[2],
                                   Head(calls)[3]), Tail(calls))

\* The insert_keyframe calls of a handler's loop are numbered j = 1, 2, ..:
\* per calls for every row, rows in table order.
LoopCalls(rows, per) == 1..(Len(rows) * per)

\* The row the j-th call belongs to, and its place among the calls made
\* for that row.
RowOf(rows, per, j) == rows[((j - 1) \div per) + 1]

CallOf(per, j) == ((j - 1) % per) + 1

\* A faulty FrameAt: the fraction is taken of duration - 1, as if the last
\* frame were counted in the duration.
FrameAtInclusive(start, duration, pct) ==
    start + IntMul(duration - 1, Literal(pct))

\* A faulty FrameAt: the fraction is counted back from the end frame, as a
\* reversed descriptor would be.
FrameAtReversed(start, duration, pct) ==
    start + duration - IntMul(duration, Literal(pct))

\* start_frame + int(duration * time_pct)
FrameAt(start, duration, pct) == start + IntMul(duration, Literal(pct))

\* The "Set interpolation" loops: every keyframe point of the fcurves of
\* data_path gets the interpolation and the easing.
SetCurve(obj, data_path, interpolation, easing) ==
    [obj EXCEPT !.keys =
        [k \in DOMAIN @ |->
            IF @[k].data_path = data_path
            THEN [@[k] EXCEPT !.interpolation = interpolation,
                              !.easing = easing]
            ELSE @[k]]]

SetAllCurves(obj, interpolation, easing) ==
    [obj EXCEPT !.keys =
        [k \in DOMAIN @ |-> [@[k] EXCEPT !.interpolation = interpolation,
                                         !.easing = easing]]]

Vec(x, y, z) == <<x, y, z>>

(***************************************************************************)
(* animation_presets.py: the preset handlers of ANIM_OT_add_preset.        *)
(***************************************************************************)
apply_popup_scale(obj, start, end_frame) ==
    LET duration == end_frame - start
        frame1 == start
        frame2 == start + IntMul(duration, Literal(40))
        frame3 == start + IntMul(duration, Literal(70))
        frame4 == end_frame
        o == InsertAll(obj, << <<"scale", frame1, Vec(0, 0, 0)>>,
                               <<"scale", frame2, Vec(120, 120, 120)>>,
                               <<"scale", frame3, Vec(90, 90, 90)>>,
                               <<"scale", frame4, Vec(100, 100, 100)>> >>)
    IN  SetAllCurves(o, "SINE", "EASE_IN_OUT")

\* Rows: time_pct, x_offset, alpha, scale.
FadeSlideKeyframes ==
    << <<0, -200, 0, Vec(90, 90, 90)>>,
       <<30, -100, 40, Vec(95, 95, 95)>>,
       <<70, -20, 80, Vec(110, 110, 110)>>,
       <<100, 0, 100, Vec(100, 100, 100)>> >>

apply_fade_slide(obj, start, end_frame) ==
    LET final_pos == obj.location
        duration == end_frame - start
        call(r, c) ==
            IF c = 1
            THEN <<"location", FrameAt(start, duration, r[1]),
                   Vec(final_pos[1] + r[2], final_pos[2], final_pos[3])>>
            ELSE <<"scale", FrameAt(start, duration, r[1]), r[4]>>
        o == InsertAll(obj,
                [j \in LoopCalls(FadeSlideKeyframes, 2) |->
                    call(RowOf(FadeSlideKeyframes, 2, j), CallOf(2, j))])
        \* the Alpha input of the Principled BSDF of the object's materials
        alphas == [k \in 1..Len(FadeSlideKeyframes) |->
                     <<FrameAt(start, duration, FadeSlideKeyframes[k][1]),
                       FadeSlideKeyframes[k][3]>>]
        frames == {alphas[k][1] : k \in DOMAIN alphas}
        last(f) == CHOOSE k \in DOMAIN alphas :
                     /\ alphas[k][1] = f
                     /\ \A j \in DOMAIN alphas : alphas[j][1] = f => j <= k
        o2 == IF o.material
              THEN [o EXCEPT
                     !.alpha = 100,
                     !.alpha_keys = {p \in @ : p[1] \notin frames}
                                    \cup {alphas[last(f)] : f \in frames}]
              ELSE o
    IN  SetCurve(SetCurve(o2, "location", "SINE", "EASE_OUT"),
                 "scale", "SINE", "EASE_IN_OUT")

\* Rows: time_pct, scale, rot_offset.
BouncyRevealKeyframes ==
    << <<0, Vec(0, 0, 0), Vec(0, 0, 0)>>,
       <<30, Vec(130, 130, 130), Vec(0, 0, 15)>>,
       <<50, Vec(70, 70, 70), Vec(0, 0, -10)>>,
       <<70, Vec(110, 110, 110), Vec(0, 0, 5)>>,
       <<85, Vec(90, 90, 90), Vec(0, 0, -2)>>,
       <<100, Vec(100, 100, 100), Vec(0, 0, 0)>> >>

\* The loop shared by apply_bouncy_reveal and apply_pulse.
ScaleRotLoop(obj, rows, start, duration) ==
    LET orig_rot == obj.rotation_euler
        call(r, c) ==
            IF c = 1
            THEN <<"scale", FrameAt(start, duration, r[1]), r[2]>>
            ELSE <<"rotation_euler", FrameAt(start, duration, r[1]),
                   Vec(orig_rot[1], orig_rot[2], orig_rot[3] + r[3][3])>>
    IN  InsertAll(obj,
            [j \in LoopCalls(rows, 2) |->
                call(RowOf(rows, 2, j), CallOf(2, j))])

apply_bouncy_reveal(obj, start, end_frame) ==
    LET duration == end_frame - start
        o == ScaleRotLoop(obj, BouncyRevealKeyframes, start, duration)
    IN  SetCurve(SetCurve(o, "scale", "ELASTIC", "EASE_OUT"),
                 "rotation_euler", "SINE", "EASE_IN_OUT")

\* Rows: time_pct, angle, scale.
RotatePopKeyframes ==
    << <<0, 0, Vec(0, 0, 0)>>,
       <<20, 90, Vec(80, 80, 80)>>,
       <<50, 270, Vec(120, 120, 120)>>,
       <<70, 330, Vec(90, 90, 90)>>,
       <<100, 360, Vec(100, 100, 100)>> >>

apply_rotate_pop(obj, start, end_frame) ==
    LET start_rot == obj.rotation_euler
        duration == end_frame - start
        call(r, c) ==
            IF c = 1
            THEN <<"rotation_euler", FrameAt(start, duration, r[1]),
                   Vec(start_rot[1], start_rot[2], start_rot[3] + r[2])>>
            ELSE <<"scale", FrameAt(start, duration, r[1]), r[3]>>
        o == InsertAll(obj,
                [j \in LoopCalls(RotatePopKeyframes, 2) |->
                    call(RowOf(RotatePopKeyframes, 2, j), CallOf(2, j))])
    IN  SetCurve(SetCurve(o, "rotation_euler", "SINE", "EASE_IN_OUT"),
                 "scale", "BACK", "EASE_OUT")

\* Rows: time_pct, height, scale.
BounceInKeyframes ==
    << <<0, -500, Vec(90, 90, 130)>>,
       <<30, 0, Vec(120, 120, 80)>>,
       <<50, 200, Vec(90, 90, 120)>>,
       <<70, 0, Vec(110, 110, 90)>>,
       <<85, 80, Vec(95, 95, 110)>>,
       <<100, 0, Vec(100, 100, 100)>> >>

\* A faulty loop: the rows are taken from the last to the first.
HeightScaleLoopBackwards(obj, rows, start, duration) ==
    LET orig_loc == obj.location
        back == [k \in DOMAIN rows |-> rows[Len(rows) + 1 - k]]
        call(r, c) ==
            IF c = 1
            THEN <<"location", FrameAt(start, duration, r[1]),
                   Vec(orig_loc[1], orig_loc[2], orig_loc[3] + r[2])>>
            ELSE <<"scale", FrameAt(start, duration, r[1]), r[3]>>
    IN  InsertAll(obj,
            [j \in LoopCalls(back, 2) |->
                call(RowOf(back, 2, j), CallOf(2, j))])

\* The loop shared by apply_bounce_in and apply_fall_from_sky.
HeightScaleLoop(obj, rows, start, duration) ==
    LET orig_loc == obj.location
        call(r, c) ==
            IF c = 1
            THEN <<"location", FrameAt(start, duration, r[1]),
                   Vec(orig_loc[1], orig_loc[2], orig_loc[3] + r[2])>>
            ELSE <<"scale", FrameAt(start, duration, r[1]), r[3]>>
    IN  InsertAll(obj,
            [j \in LoopCalls(rows, 2) |->
                call(RowOf(rows, 2, j), CallOf(2, j))])

apply_bounce_in(obj, start, end_frame) ==
    LET duration == end_frame - start
        o == HeightScaleLoop(obj, BounceInKeyframes, start, duration)
    IN  SetCurve(SetCurve(o, "location", "BOUNCE", "EASE_OUT"),
                 "scale", "SINE", "EASE_IN_OUT")

\* Rows: time_pct, x_offset, rot_z, scale.
SlideFromSideKeyframes ==
    << <<0, -300, -15, Vec(80, 80, 80)>>,
       <<30, -200, -10, Vec(90, 90, 110)>>,
       <<60, -50, -5, Vec(110, 110, 90)>>,
       <<80, 20, 2, Vec(105, 105, 105)>>,
       <<90, 10, 1, Vec(95, 95, 95)>>,
       <<100, 0, 0, Vec(100, 100, 100)>> >>

apply_slide_from_side(obj, start, end_frame) ==
    LET duration == end_frame - start
        final_pos == obj.location
        start_rot == obj.rotation_euler
        call(r, c) ==
            IF c = 1
            THEN <<"location", FrameAt(start, duration, r[1]),
                   Vec(final_pos[1] + r[2], final_pos[2], final_pos[3])>>
            ELSE IF c = 2
            THEN <<"rotation_euler", FrameAt(start, duration, r[1]),
                   Vec(start_rot[1], start_rot[2], start_rot[3] + r[3])>>
            ELSE <<"scale", FrameAt(start, duration, r[1]), r[4]>>
        o == InsertAll(obj,
                [j \in LoopCalls(SlideFromSideKeyframes, 3) |->
                    call(RowOf(SlideFromSideKeyframes, 3, j), CallOf(3, j))])
    IN  SetCurve(SetCurve(SetCurve(o, "location", "BACK", "EASE_OUT"),
                          "rotation_euler", "SINE", "EASE_IN_OUT"),
                 "scale", "SINE", "EASE_IN_OUT")

\* Rows: time_pct, height, scale.
FallFromSkyKeyframes ==
    << <<0, 1000, Vec(80, 80, 140)>>,
       <<30, -20, Vec(140, 140, 60)>>,
       <<50, 200, Vec(90, 90, 120)>>,
       <<70, -10, Vec(120, 120, 80)>>,
       <<85, 50, Vec(95, 95, 110)>>,
       <<92, 0, Vec(110, 110, 90)>>,
       <<100, 0, Vec(100, 100, 100)>> >>

apply_fall_from_sky(obj, start, end_frame) ==
    LET duration == end_frame - start
        o == HeightScaleLoop(obj, FallFromSkyKeyframes, start, duration)
        \* keyframe.co[0] < start_frame + (duration * 0.3)
        falling(k) == (k.frame - start) * 100 < duration * 30
        o2 == [o EXCEPT !.keys =
                 [k \in DOMAIN @ |->
                    IF @[k].data_path = "location"
                    THEN IF falling(@[k])
                         THEN [@[k] EXCEPT !.interpolation = "SINE",
                                           !.easing = "EASE_IN"]
                         ELSE [@[k] EXCEPT !.interpolation = "BOUNCE",
                                           !.easing = "EASE_OUT"]
                    ELSE @[k]]]
    IN  SetCurve(o2, "scale", "SINE", "EASE_IN_OUT")

\* Rows: time_pct, angle, scale, y_offset.
FlipRevealKeyframes ==
    << <<0, 0, Vec(0, 0, 0), 0>>,
       <<20, 45, Vec(60, 60, 60), 20>>,
       <<50, 135, Vec(120, 120, 120), -10>>,
       <<70, 160, Vec(90, 90, 90), 5>>,
       <<85, 175, Vec(110, 110, 110), -2>>,
       <<100, 180, Vec(100, 100, 100), 0>> >>

apply_flip_reveal(obj, start, end_frame) ==
    LET duration == end_frame - start
        start_rot == obj.rotation_euler
        orig_pos == obj.location
        call(r, c) ==
            IF c = 1
            THEN <<"rotation_euler", FrameAt(start, duration, r[1]),
                   Vec(start_rot[1] + r[2], start_rot[2], start_rot[3])>>
            ELSE IF c = 2
            THEN <<"scale", FrameAt(start, duration, r[1]), r[3]>>
            ELSE <<"location", FrameAt(start, duration, r[1]),
                   Vec(orig_pos[1], orig_pos[2] + r[4], orig_pos[3])>>
        o == InsertAll(obj,
                [j \in LoopCalls(FlipRevealKeyframes, 3) |->
                    call(RowOf(FlipRevealKeyframes, 3, j), CallOf(3, j))])
    IN  SetCurve(SetCurve(SetCurve(o, "rotation_euler", "SINE", "EASE_IN_OUT"),
                          "scale", "SINE", "EASE_OUT"),
                 "location", "SINE", "EASE_IN_OUT")

\* Rows: time_pct, scale, rot_offset.
PulseKeyframes ==
    << <<0, Vec(100, 100, 100), Vec(0, 0, 0)>>,
       <<20, Vec(130, 130, 80), Vec(0, 0, 2)>>,
       <<40, Vec(80, 80, 130), Vec(0, 0, -2)>>,
       <<60, Vec(120, 120, 90), Vec(0, 0, 1)>>,
       <<80, Vec(90, 90, 110), Vec(0, 0, -1)>>,
       <<100, Vec(100, 100, 100), Vec(0, 0, 0)>> >>

apply_pulse(obj, start, end_frame) ==
    LET duration == end_frame - start
        o == ScaleRotLoop(obj, PulseKeyframes, start, duration)
    IN  SetCurve(SetCurve(o, "scale", "SINE", "EASE_IN_OUT"),
                 "rotation_euler", "SINE", "EASE_IN_OUT")

\* Rows: time_pct, scale.
ElasticTimings ==
    << <<0, Vec(0, 0, 0)>>,
       <<20, Vec(150, 150, 150)>>,
       <<40, Vec(70, 70, 70)>>,
       <<60, Vec(120, 120, 120)>>,
       <<80, Vec(90, 90, 90)>>,
       <<90, Vec(105, 105, 105)>>,
       <<100, Vec(100, 100, 100)>> >>

apply_elastic(obj, start, end_frame) ==
    LET duration == end_frame - start
        call(r, c) == <<"scale", FrameAt(start, duration, r[1]), r[2]>>
        o == InsertAll(obj,
                [j \in LoopCalls(ElasticTimings, 1) |->
                    call(RowOf(ElasticTimings, 1, j), CallOf(1, j))])
    IN  [SetAllCurves(o, "ELASTIC", "EASE_OUT") EXCEPT !.keys =
            [k \in DOMAIN @ |-> [@[k] EXCEPT !.handle_type = "AUTO_CLAMPED"]]]

(***************************************************************************)
(* The copy presets.  A scene is the pair of bpy.data.objects and          *)
(* bpy.app.timers the handlers read and change.                            *)
(***************************************************************************)
Scene(objs, tms) == [objects |-> objs, timers |-> tms]

\* The name a new datablock gets: the first one free.
NewId(objs) ==
    CHOOSE i \in 1..(Cardinality(DOMAIN objs) + 1) :
        /\ i \notin DOMAIN objs
        /\ \A j \in 1..(i - 1) : j \in DOMAIN objs

\* context.scene.collection.objects.link(copy)
Link(objs, id, copy) ==
    [i \in DOMAIN objs \cup {id} |-> IF i = id THEN copy ELSE objs[i]]

\* bpy.data.objects.remove(copy, do_unlink=True)
Remove(objs, ids) == [i \in DOMAIN objs \ ids |-> objs[i]]

Timer(fn, obj, original_hide, copies) ==
    [fn |-> fn, obj |-> obj, original_hide |-> original_hide,
     copies |-> copies]

\* Rows: time_pct, scale, x_offset, rot_z.
TypewriterKeyframes ==
    << <<0, Vec(0, 0, 0), -50, 10>>,
       <<20, Vec(70, 70, 70), -30, 5>>,
       <<50, Vec(110, 110, 110), -10, -3>>,
       <<70, Vec(90, 90, 90), 0, 2>>,
       <<100, Vec(100, 100, 100), 0, 0>> >>

\* The interpolation loops shared by apply_typewriter and apply_stagger.
CopyCurves(copy, scale_ip, location_ip) ==
    SetCurve(SetCurve(SetCurve(copy, "scale", scale_ip, "EASE_OUT"),
                      "location", location_ip, "EASE_OUT"),
             "rotation_euler", "SINE", "EASE_IN_OUT")

apply_typewriter(scn, id, start, end_frame) ==
    LET obj == scn.objects[id]
    IN  IF obj.type # "MESH" THEN scn
        ELSE
        LET duration == end_frame - start
            original_hide == obj.hide_viewport
            original_loc == obj.location
            hidden == [obj EXCEPT !.hide_viewport = TRUE]
            copy_id == NewId(scn.objects)
            \* rot = copy.rotation_euler.copy(); rot.z = radians(rot_z): the
            \* x and y of the copy are never changed by the loop.
            call(r, c) ==
                IF c = 1
                THEN <<"scale", FrameAt(start, duration, r[1]), r[2]>>
                ELSE IF c = 2
                THEN <<"location", FrameAt(start, duration, r[1]),
                       Vec(original_loc[1] + r[3], original_loc[2],
                           original_loc[3])>>
                ELSE <<"rotation_euler", FrameAt(start, duration, r[1]),
                       Vec(hidden.rotation_euler[1],
                           hidden.rotation_euler[2], r[4])>>
            copy == CopyCurves(
                      InsertAll(hidden,
                              [j \in LoopCalls(TypewriterKeyframes, 3) |->
                                  call(RowOf(TypewriterKeyframes, 3, j), CallOf(3, j))]),
                      "SINE", "BACK")
        IN  Scene(Link([scn.objects EXCEPT ![id] = hidden], copy_id, copy),
                  scn.timers \cup
                    {Timer("cleanup", id, original_hide, <<copy_id>>)})

\* Rows: time_pct, scale, x_offset, rot_z.
StaggerKeyframes ==
    << <<0, Vec(0, 0, 0), -30, 10>>,
       <<30, Vec(120, 120, 80), -10, -5>>,
       <<50, Vec(90, 90, 110), 0, 2>>,
       <<70, Vec(110, 110, 90), 0, -1>>,
       <<100, Vec(100, 100, 100), 0, 0>> >>

num_copies == 3

\* delay_pct = 0.2 * i ; adjusted_time = time_pct + delay_pct
AdjustedTime(pct, i) == FloatAdd(Literal(pct), FloatScale(Literal(20), i))

\* The rows of the base table kept for copy i, in table order.
KeptRows(i) ==
    SelectSeq(StaggerKeyframes,
              LAMBDA r : FloatLeqOne(AdjustedTime(r[1], i)))

\* Copy i of the Staggered preset (i = 0, 1, 2), keyframed.
StaggerCopy(obj, i, start, duration) ==
    LET call(r, c) ==
            LET frame == start + IntMul(duration, AdjustedTime(r[1], i))
            IN  IF c = 1 THEN <<"scale", frame, r[2]>>
                ELSE IF c = 2
                THEN <<"location", frame,
                       Vec(obj.location[1] + r[3], obj.location[2],
                           obj.location[3])>>
                ELSE <<"rotation_euler", frame,
                       Vec(obj.rotation_euler[1], obj.rotation_euler[2],
                           r[4])>>
    IN  CopyCurves(InsertAll(obj,
            [j \in LoopCalls(KeptRows(i), 3) |->
                call(RowOf(KeptRows(i), 3, j), CallOf(3, j))]),
                   "ELASTIC", "SINE")

RECURSIVE StaggerLoop(_, _, _, _, _, _)
StaggerLoop(objs, obj, i, start, duration, copies) ==
    IF i >= num_copies THEN <<objs, copies>>
    ELSE LET copy_id == NewId(objs)
         IN  StaggerLoop(Link(objs, copy_id,
                              StaggerCopy(obj, i, start, duration)),
                         obj, i + 1, start, duration,
                         Append(copies, copy_id))

apply_stagger(scn, id, start, end_frame) ==
    LET obj == scn.objects[id]
    IN  IF obj.type # "MESH" THEN scn
        ELSE
        LET duration == end_frame - start
            res == StaggerLoop(scn.objects, obj, 0, start, duration, <<>>)
        IN  Scene(res[1],
                  scn.timers \cup {Timer("cleanup_all", id, FALSE, res[2])})

(***************************************************************************)
(* ANIM_OT_add_preset.execute                                              *)
(***************************************************************************)
PresetItems ==
    << "PRESET_A", "PRESET_B", "PRESET_C", "PRESET_ROTATE_POP",
       "PRESET_BOUNCE_IN", "PRESET_SLIDE_FROM_SIDE", "PRESET_FALL_FROM_SKY",
       "PRESET_FLIP_REVEAL", "PRESET_TYPEWRITER", "PRESET_PULSE",
       "PRESET_ELASTIC", "PRESET_STAGGER" >>

base_duration == 30

\* speed 1.0 in the unit of animation_speed
SpeedOne == 256

\* actual_duration = int(base_duration / speed): the quotient of an integer
\* by a speed that is a multiple of 1/256 is exact or at least 1/1280 away
\* from an integer, so the float division never crosses one.
ActualDuration(speed) == (base_duration * SpeedOne) \div speed

\* The handler of the selected preset, on the object itself.
ApplyOnObject(preset, obj, start, end_frame) ==
    CASE preset = "PRESET_A" -> apply_popup_scale(obj, start, end_frame)
      [] preset = "PRESET_B" -> apply_fade_slide(obj, start, end_frame)
      [] preset = "PRESET_C" -> apply_bouncy_reveal(obj, start, end_frame)
      [] preset = "PRESET_ROTATE_POP" -> apply_rotate_pop(obj, start, end_frame)
      [] preset = "PRESET_BOUNCE_IN" -> apply_bounce_in(obj, start, end_frame)
      [] preset = "PRESET_SLIDE_FROM_SIDE" ->
             apply_slide_from_side(obj, start, end_frame)
      [] preset = "PRESET_FALL_FROM_SKY" ->
             apply_fall_from_sky(obj, start, end_frame)
      [] preset = "PRESET_FLIP_REVEAL" -> apply_flip_reveal(obj, start, end_frame)
      [] preset = "PRESET_PULSE" -> apply_pulse(obj, start, end_frame)
      [] preset = "PRESET_ELASTIC" -> apply_elastic(obj, start, end_frame)
      [] OTHER -> obj

\* One iteration of the loop over the selected objects.
ApplyPresetTo(scn, id, preset, easing, start, end_frame) ==
    LET cleared == [scn EXCEPT !.objects[id] = clear_keyframes(@)]
        applied ==
            IF preset = "PRESET_TYPEWRITER"
            THEN apply_typewriter(cleared, id, start, end_frame)
            ELSE IF preset = "PRESET_STAGGER"
            THEN apply_stagger(cleared, id, start, end_frame)
            ELSE [cleared EXCEPT !.objects[id] =
                     ApplyOnObject(preset, @, start, end_frame)]
    IN  [applied EXCEPT !.objects[id] = set_interpolation(@, easing)]

RECURSIVE ApplyPresetLoop(_, _, _, _, _, _)
ApplyPresetLoop(scn, sel, preset, easing, start, end_frame) ==
    IF sel = <<>> THEN scn
    ELSE ApplyPresetLoop(
             ApplyPresetTo(scn, Head(sel), preset, easing, start, end_frame),
             Tail(sel), preset, easing, start, end_frame)

\* What one execution adds to the unbounded parts of the state: a timer
\* for every mesh (copy presets), a turn for every object (rotating presets).
NewTimers(preset) ==
    IF preset \in {"PRESET_TYPEWRITER", "PRESET_STAGGER"}
    THEN Cardinality({k \in DOMAIN selected_objects :
                        objects[selected_objects[k]].type = "MESH"})
    ELSE 0

Turn(preset) ==
    CASE preset = "PRESET_ROTATE_POP" -> 360
      [] preset = "PRESET_FLIP_REVEAL" -> 180
      [] OTHER -> 0

Turned(obj) == obj.rotation_euler[1] + obj.rotation_euler[3]

ANIM_OT_add_preset ==
    /\ run.pc = "idle"
    /\ selected_objects # <<>>
    /\ Cardinality(timers) + NewTimers(preset_enum) <= MaxTimers
    /\ \A k \in DOMAIN selected_objects :
          Turned(objects[selected_objects[k]]) + Turn(preset_enum) <= MaxAngle
    /\ LET start == frame_current
           actual_duration == ActualDuration(animation_speed)
           end_frame == start + actual_duration
           scn == ApplyPresetLoop(Scene(objects, timers), selected_objects,
                                  preset_enum, animation_easing, start,
                                  end_frame)
       IN  /\ objects' = scn.objects
           /\ timers' = scn.timers
    /\ result' = "FINISHED"
    /\ UNCHANGED <<aacVars, presetVars, curveVars, previewVars, frame_current,
                   selected_objects>>

(***************************************************************************)
(* ANIM_OT_reset_animation.execute                                         *)
(***************************************************************************)
ANIM_OT_reset_animation ==
    /\ run.pc = "idle"
    /\ selected_objects # <<>>
    /\ frame_current' = start_frame
    /\ objects' = [i \in DOMAIN objects |->
                     IF \E k \in DOMAIN selected_objects :
                           selected_objects[k] = i
                     THEN clear_keyframes(objects[i])
                     ELSE objects[i]]
    /\ result' = "FINISHED"
    /\ UNCHANGED <<aacVars, presetVars, curveVars, previewVars, selected_objects,
                   timers>>

(***************************************************************************)
(* The timers registered by apply_typewriter and apply_stagger.            *)
(***************************************************************************)
\* apply_typewriter.cleanup
cleanup(objs, t) ==
    Remove([objs EXCEPT ![t.obj].hide_viewport = t.original_hide],
           {t.copies[k] : k \in DOMAIN t.copies})

\* apply_stagger.cleanup_all
cleanup_all(objs, t) == Remove(objs, {t.copies[k] : k \in DOMAIN t.copies})

TimerFires ==
    \E t \in timers :
        /\ run.pc = "idle"
        /\ t.fn \in {"cleanup", "cleanup_all"}
        /\ objects' = IF t.fn = "cleanup" THEN cleanup(objects, t)
                      ELSE cleanup_all(objects, t)
        /\ timers' = timers \ {t}
        /\ UNCHANGED <<aacVars, presetVars, curveVars, previewVars, frame_current,
                       selected_objects, result>>

(***************************************************************************)
(* curve_animation.py: CURVE_OT_ApplyCurveAnimation.                       *)
(***************************************************************************)
\* Offset factors are kept in eighths: FactorOne is the 1.0 of the source.
FactorOne == 8

\* A faulty min: the upper limit is not applied.
MinOfFirst(a, b) == a

Min(a, b) == IF a < b THEN a ELSE b

Max(a, b) == IF a > b THEN a ELSE b

RECURSIVE Pow2Mod(_, _)
Pow2Mod(m, D) ==
    IF m <= 0 THEN 1 % D
    ELSE IF m % 2 = 0
         THEN LET h == Pow2Mod(m \div 2, D) IN (h * h) % D
         ELSE (2 * Pow2Mod(m - 1, D)) % D

RECURSIVE ShiftUp(_, _, _)
ShiftUp(x, D, k) == IF x * Pow2(k) >= D THEN k ELSE ShiftUp(x, D, k + 1)

\* int(time_offset * duration) with time_offset = x / D, for integers
\* x >= 0, D >= 1 and duration d >= 1: the quotient is rounded to a double
\* (53-bit significand), the product is rounded again, int() truncates.
\* Only when x*d/D is an integer n can the result differ from the exact
\* floor: the quotient was rounded down by r/(D * 2^m), and if the product
\* then lies more than half a spacing below n it truncates to n - 1.
TimeOffsetFrames(x, D, d) ==
    LET n  == (x * d) \div D
        eq == IF x >= D THEN Log2Floor(x \div D) ELSE -ShiftUp(x, D, 1)
        m  == 52 - eq
        r  == (x * Pow2Mod(m, D)) % D
        sh == ExpBelow(n) - eq
    IN  IF x = 0 THEN 0
        ELSE IF (x * d) % D # 0 \/ n = 0 \/ r = 0 \/ 2 * r > D THEN n
        ELSE IF sh >= 0
             THEN (IF 2 * d * r > D * Pow2(sh) THEN n - 1 ELSE n)
             ELSE (IF 2 * d * r * Pow2(-sh) > D THEN n - 1 ELSE n)

\* The data path of the offset_factor fcurve of the constraint called name.
OffsetPath(name) == "constraints[\"" \o name \o "\"].offset_factor"

\* fcurve.data_path.endswith('offset_factor')
EndsWithOffsetFactor(data_path) == data_path \notin Paths

\* obj.constraints.new(type): Blender makes the name unique.
UniqueName(cs, base) ==
    IF \A k \in DOMAIN cs : cs[k].name # base THEN base ELSE base \o ".001"

NewConstraint(cs, type, base, target, axis, up_axis) ==
    [type |-> type, name |-> UniqueName(cs, base), target |-> target,
     axis |-> axis, up_axis |-> up_axis, offset_factor |-> 0]

\* for c in obj.constraints: if c.type in {...}: obj.constraints.remove(c)
\* The collection is changed while it is iterated: the iterator either goes
\* on with the element after the removed one, or steps over it (skip).
RECURSIVE RemoveWhileIterating(_, _, _)
RemoveWhileIterating(cs, k, skip) ==
    IF k > Len(cs) THEN cs
    ELSE IF cs[k].type \in {"FOLLOW_PATH", "TRACK_TO"}
         THEN RemoveWhileIterating(
                  SubSeq(cs, 1, k - 1) \o SubSeq(cs, k + 1, Len(cs)),
                  IF skip THEN k + 1 ELSE k, skip)
         ELSE RemoveWhileIterating(cs, k + 1, skip)

cleanup_animation_data(obj, skip) ==
    [animation_data_clear(obj) EXCEPT
        !.constraints = RemoveWhileIterating(@, 1, skip)]

\* Returns the object and the name of the follow constraint ("" for None).
\* raises: obj.constraints.new raises, the handler cleans up again.
setup_constraints(obj, skip, raises) ==
    LET o1 == cleanup_animation_data(obj, skip)
        follow == NewConstraint(o1.constraints, "FOLLOW_PATH", "Follow Path",
                                settings.curve_enum, settings.follow_axis,
                                settings.up_axis)
        cs2 == Append(o1.constraints, follow)
        track == NewConstraint(cs2, "TRACK_TO", "Track To",
                               settings.curve_enum, settings.follow_axis,
                               settings.up_axis)
        \* find(track.name) < find(follow.name) is false: track was appended
        \* after follow, the while loop never runs
        cs3 == IF settings.follow_curve THEN Append(cs2, track) ELSE cs2
    IN  IF raises
        THEN [obj |-> cleanup_animation_data(o1, skip), follow |-> ""]
        ELSE [obj |-> [o1 EXCEPT !.constraints = cs3], follow |-> follow.name]

setup_object(obj) ==
    [obj EXCEPT !.constraints = <<>>,
                !.modifiers = << [name |-> "Subdivision", type |-> "SUBSURF"],
                                 [name |-> "Curve Modifier", type |-> "CURVE"] >>,
                !.rotation_euler = Vec(0, 0, 0)]

\* obj.keyframe_insert(data_path, frame=frame): keys the current value.
keyframe_insert(obj, data_path, frame) ==
    [obj EXCEPT !.keys = Append(@, KeyPoint(data_path, frame, obj[data_path]))]

\* follow.offset_factor = factor; follow.keyframe_insert('offset_factor', ..)
KeyOffsetFactor(obj, follow, frame, factor) ==
    [obj EXCEPT
        !.constraints = [k \in DOMAIN @ |->
            IF @[k].name = follow THEN [@[k] EXCEPT !.offset_factor = factor]
            ELSE @[k]],
        !.keys = Append(@, KeyPoint(OffsetPath(follow), frame, <<factor>>))]

\* A faulty ping-pong: the way back is not keyed.
PingPongOneWay(obj, follow, start, duration, start_factor, end_factor) ==
    KeyOffsetFactor(obj, follow, start + duration, end_factor)

_create_ping_pong_animation(obj, follow, start, duration, start_factor, end_factor) ==
    LET mid_frame == start + duration
        end_frame == start + (duration * 2)
    IN  KeyOffsetFactor(KeyOffsetFactor(obj, follow, mid_frame, end_factor),
                        follow, end_frame, start_factor)

RECURSIVE OffsetLoop(_, _, _, _, _, _, _)
OffsetLoop(obj, follow, start, duration, start_factor, end_factor, i) ==
    IF i >= 4 THEN obj
    ELSE LET frame == start + (duration * i)
             offset == i * settings.loop_offset
             factor == IF settings.reverse_direction
                       THEN start_factor + offset
                       ELSE end_factor + offset
             clamped == Min(Max(factor, 0), FactorOne)
         IN  OffsetLoop(KeyOffsetFactor(obj, follow, frame, clamped), follow,
                        start, duration, start_factor, end_factor, i + 1)

_create_offset_animation(obj, follow, start, duration, start_factor, end_factor) ==
    OffsetLoop(obj, follow, start, duration, start_factor, end_factor, 1)

\* A faulty repeat: the end is keyed, the cycles modifier is not added.
RepeatWithoutCycles(obj, follow, start, end_frame, end_factor) ==
    KeyOffsetFactor(obj, follow, end_frame, end_factor)

_create_repeat_animation(obj, follow, start, end_frame, end_factor) ==
    LET o == KeyOffsetFactor(obj, follow, end_frame, end_factor)
    IN  [o EXCEPT !.fmodifiers = @ \cup
            {[data_path |-> o.keys[k].data_path, type |-> "CYCLES",
              mode_before |-> "REPEAT", mode_after |-> "REPEAT"] :
             k \in {j \in DOMAIN o.keys :
                        EndsWithOffsetFactor(o.keys[j].data_path)}}]

set_keyframe_interpolation(obj, interpolation_type, default_type) ==
    [obj EXCEPT !.keys =
        [k \in DOMAIN @ |->
            IF EndsWithOffsetFactor(@[k].data_path)
            THEN [@[k] EXCEPT
                    !.interpolation = IF interpolation_type # ""
                                      THEN interpolation_type
                                      ELSE default_type,
                    !.handle_type = "AUTO_CLAMPED"]
            ELSE @[k]]]

\* A faulty apply_animation: reverse_direction is not looked at, the
\* factors are those of the forward direction.
ApplyAnimationForward(obj, duration, x, skip, raises) ==
    LET sc == setup_constraints(obj, skip, raises)
        follow == sc.follow
        start == 1 + TimeOffsetFrames(x, animation_duration, duration)
        end_frame == start + duration
        start_factor == 0
        end_factor == FactorOne
        o1 == KeyOffsetFactor(keyframe_insert(sc.obj, "location", start),
                              follow, start, start_factor)
        o2 == IF settings.loop_animation
              THEN IF settings.loop_type = "PING_PONG"
                   THEN _create_ping_pong_animation(o1, follow, start,
                            duration, start_factor, end_factor)
                   ELSE IF settings.loop_type = "OFFSET"
                   THEN _create_offset_animation(o1, follow, start, duration,
                            start_factor, end_factor)
                   ELSE _create_repeat_animation(o1, follow, start, end_frame,
                            end_factor)
              ELSE KeyOffsetFactor(o1, follow, end_frame, end_factor)
    IN  IF follow = "" THEN [obj |-> sc.obj, ok |-> FALSE]
        ELSE [obj |-> set_keyframe_interpolation(o2, settings.ease_type,
                          IF settings.loop_type = "OFFSET" THEN "LINEAR"
                          ELSE "SINE"),
              ok |-> TRUE]

\* Returns the object and whether the animation was applied.  x is the
\* numerator i * spacing_offset of time_offset = x / animation_duration.
apply_animation(obj, duration, x, skip, raises) ==
    LET sc == setup_constraints(obj, skip, raises)
        follow == sc.follow
        start == 1 + TimeOffsetFrames(x, animation_duration, duration)
        end_frame == start + duration
        start_factor == IF settings.reverse_direction THEN FactorOne ELSE 0
        end_factor == IF settings.reverse_direction THEN 0 ELSE FactorOne
        o1 == KeyOffsetFactor(keyframe_insert(sc.obj, "location", start),
                              follow, start, start_factor)
        o2 == IF settings.loop_animation
              THEN IF settings.loop_type = "PING_PONG"
                   THEN _create_ping_pong_animation(o1, follow, start,
                            duration, start_factor, end_factor)
                   ELSE IF settings.loop_type = "OFFSET"
                   THEN _create_offset_animation(o1, follow, start, duration,
                            start_factor, end_factor)
                   ELSE _create_repeat_animation(o1, follow, start, end_frame,
                            end_factor)
              ELSE KeyOffsetFactor(o1, follow, end_frame, end_factor)
    IN  IF follow = "" THEN [obj |-> sc.obj, ok |-> FALSE]
        ELSE [obj |-> set_keyframe_interpolation(o2, settings.ease_type,
                          IF settings.loop_type = "OFFSET" THEN "LINEAR"
                          ELSE "SINE"),
              ok |-> TRUE]

apply_curve_following(obj, skip, raises) == setup_constraints(obj, skip, raises)

apply_additional_rotation(obj, rotation, duration) ==
    LET o == keyframe_insert(obj, "rotation_euler", 1)
    IN  keyframe_insert([o EXCEPT !.rotation_euler = rotation],
                        "rotation_euler", duration)

apply_scale_animation(obj, scale_factor, duration, x) ==
    LET start == 1 + TimeOffsetFrames(x, animation_duration, duration)
        mid_frame == start + IntMul(duration, Literal(50))
        end_frame == start + duration
        o1 == keyframe_insert([obj EXCEPT !.scale = Vec(100, 100, 100)],
                              "scale", start)
        o2 == keyframe_insert([o1 EXCEPT !.scale = scale_factor], "scale",
                              mid_frame)
    IN  keyframe_insert([o2 EXCEPT !.scale = Vec(100, 100, 100)], "scale",
                        end_frame)

setup_curve(c) ==
    [c EXCEPT !.loaded = TRUE, !.hide_viewport = FALSE, !.hide_render = FALSE,
              !.use_path = TRUE]

\* A faulty total_duration: the loop policy is ignored.
TotalDurationOfOnePass(duration) == duration

\* total_duration of execute: the length of the frame range it sets.
TotalDuration(duration) ==
    IF settings.loop_animation /\ settings.loop_type = "PING_PONG"
    THEN duration * 2
    ELSE IF settings.loop_animation /\ settings.loop_type = "OFFSET"
    THEN duration * 4
    ELSE duration

\* A faulty adjusted_duration: round() in the place of int().
AdjustedDurationRounded ==
    (2 * animation_duration * SpeedOne + settings.speed_factor)
        \div (2 * settings.speed_factor)

\* adjusted_duration = int(duration / settings.speed_factor)
AdjustedDuration == (animation_duration * SpeedOne) \div settings.speed_factor

\* i * spacing_offset for the object at (0-based) index i
SpacingOffset(i) ==
    IF Len(selected_objects) > 1 THEN i * settings.spacing ELSE 0

\* The loop goes on with the next object, or leaves for the report.
NextObject(r) ==
    [r EXCEPT !.i = @ + 1,
              !.pc = IF r.i + 1 >= Len(selected_objects) THEN "report"
                     ELSE "loop"]

\* A faulty failure path: break in the place of continue.
FailedAndStop(r, id) ==
    [r EXCEPT !.failed_objects = Append(@, id), !.i = @ + 1, !.pc = "report"]

Failed(r, id) == NextObject([r EXCEPT !.failed_objects = Append(@, id)])

(***************************************************************************)
(* execute, up to the per-object loop: validation, the frame range, the    *)
(* assets and the curve.  env is what the installation answers.            *)
(***************************************************************************)
ApplyCurveBegin ==
    /\ run.pc = "idle"
    /\ preview.pc \in {"idle", "call"}
    /\ selected_objects # <<>>
    /\ \E env \in {"ok", "no_assets", "no_curve"} :
        /\ env = "no_curve" => ~curve.loaded
        /\ IF animation_duration < 1
           THEN /\ result' = "CANCELLED"
                /\ UNCHANGED <<frame_range, frame_current, curve, run>>
           ELSE /\ frame_range' =
                      [frame_start |-> 1,
                       frame_end |-> TotalDuration(animation_duration)]
                /\ frame_current' = 1
                /\ IF env = "ok"
                   THEN /\ curve' = setup_curve(curve)
                        /\ run' = [pc |-> "loop", i |-> 0, success_count |-> 0,
                                   failed_objects |-> <<>>, errors |-> FALSE]
                        /\ UNCHANGED result
                   ELSE /\ result' = "CANCELLED"
                        /\ UNCHANGED <<curve, run>>
    /\ preview' = IF preview.pc = "call" THEN [preview EXCEPT !.pc = "called"]
                   ELSE preview
    /\ UNCHANGED <<aacVars, presetVars, settings, animation_duration,
                   show_animation_paths, selected_objects, objects, timers,
                   is_animation_playing>>

(***************************************************************************)
(* One iteration of the loop, up to the return of apply_animation.         *)
(***************************************************************************)
ApplyCurveAnimate ==
    /\ run.pc = "loop"
    /\ \E outcome \in {"ok", "setup_raises", "animation_fails"} :
        LET id == selected_objects[run.i + 1]
            obj == objects[id]
            an == apply_animation(setup_object(obj), AdjustedDuration,
                                  SpacingOffset(run.i), FALSE,
                                  outcome = "animation_fails")
        IN  IF outcome = "setup_raises"
            THEN /\ objects' = [objects EXCEPT ![id] =
                        [obj EXCEPT !.constraints = <<>>, !.modifiers = <<>>]]
                 /\ run' = Failed(run, id)
            ELSE /\ objects' = [objects EXCEPT ![id] = an.obj]
                 /\ run' = IF an.ok THEN [run EXCEPT !.pc = "animated"]
                           ELSE Failed([run EXCEPT !.errors = TRUE], id)
    /\ UNCHANGED <<aacVars, presetVars, previewVars, settings, animation_duration,
                   show_animation_paths, frame_range, curve, frame_current,
                   selected_objects, timers, result>>

(***************************************************************************)
(* The rest of the iteration: curve following, additional rotation, scale. *)
(***************************************************************************)
ApplyCurveFinish ==
    /\ run.pc = "animated"
    /\ \E outcome \in {"ok", "following_fails"}, skip \in BOOLEAN :
        LET id == selected_objects[run.i + 1]
            obj == objects[id]
            fo == IF settings.follow_curve
                  THEN apply_curve_following(obj, skip,
                                             outcome = "following_fails")
                  ELSE [obj |-> obj, follow |-> "Follow Path"]
            o1 == IF settings.additional_rotation # Vec(0, 0, 0)
                  THEN apply_additional_rotation(fo.obj,
                           settings.additional_rotation, AdjustedDuration)
                  ELSE fo.obj
            o2 == IF settings.scale_animation
                  THEN apply_scale_animation(o1, settings.scale_factor,
                           AdjustedDuration, SpacingOffset(run.i))
                  ELSE o1
        IN  /\ outcome = "following_fails" => settings.follow_curve
            /\ IF fo.follow = ""
               THEN /\ objects' = [objects EXCEPT ![id] = fo.obj]
                    /\ run' = Failed([run EXCEPT !.errors = TRUE], id)
               ELSE /\ objects' = [objects EXCEPT ![id] = o2]
                    /\ run' = NextObject([run EXCEPT !.success_count = @ + 1])
    /\ UNCHANGED <<aacVars, presetVars, previewVars, settings, animation_duration,
                   show_animation_paths, frame_range, curve, frame_current,
                   selected_objects, timers, result>>

(***************************************************************************)
(* After the loop: update_curve_visibility and the report.  The body of    *)
(* update_curve_visibility's loop reads an undefined name, so it raises as *)
(* soon as the curve is linked to a collection.                            *)
(***************************************************************************)
ApplyCurveReport ==
    /\ run.pc = "report"
    /\ curve' = [curve EXCEPT !.hide_viewport = ~show_animation_paths,
                              !.hide_render = ~show_animation_paths]
    /\ result' = IF curve.linked THEN "CANCELLED"
                 ELSE IF run.success_count > 0 THEN "FINISHED"
                 ELSE "CANCELLED"
    /\ run' = [run EXCEPT !.pc = "idle",
                           !.errors = @ \/ curve.linked
                                        \/ run.success_count = 0]
    /\ UNCHANGED <<aacVars, presetVars, previewVars, settings, animation_duration,
                   show_animation_paths, frame_range, frame_current,
                   selected_objects, objects, timers>>

(***************************************************************************)
(* The navigators: ANIM_OT_PrevPreset, ANIM_OT_NextPreset,                 *)
(* CURVE_OT_PrevCurve, CURVE_OT_NextCurve.  Indices count from 0 as in the *)
(* source.                                                                 *)
(***************************************************************************)
CurveItems ==
    << "Curve Twist", "Curve Twist 02", "Curve Twist 03", "Curve Twist 04",
       "Curve Twist 05", "Curve Twist 06", "Curve Twist 07", "Curve Twist 08",
       "Curve Twist 09", "Curve Twist 10", "Curve Twist 11",
       "NurbsPath Roll" >>

\* The for loop of the preset navigators: the index of the first item with
\* the identifier, 0 when there is none.
current_index(items, identifier) ==
    IF \E i \in DOMAIN items : items[i] = identifier
    THEN (CHOOSE i \in DOMAIN items :
             /\ items[i] = identifier
             /\ \A j \in 1..(i - 1) : items[j] # identifier) - 1
    ELSE 0

\* A faulty prev_index: it stops at the first item.
PrevIndexStops(items, current) == IF current - 1 < 0 THEN 0 ELSE current - 1

prev_index(items, current) ==
    IF current - 1 < 0 THEN Len(items) - 1 ELSE current - 1

next_index(items, current) == (current + 1) % Len(items)

\* (current - 1) % len(items): the remainder of Python has the sign of the
\* divisor.
PrevCurveIndex(items, current) == (current - 1 + Len(items)) % Len(items)

NextCurveIndex(items, current) == (current + 1) % Len(items)

ANIM_OT_PrevPreset ==
    /\ run.pc = "idle" /\ preview.pc = "idle"
    /\ selected_objects # <<>>
    /\ preset_enum' =
          PresetItems[prev_index(PresetItems,
                          current_index(PresetItems, preset_enum)) + 1]
    /\ result' = "FINISHED"
    /\ UNCHANGED <<aacVars, animation_speed, animation_easing, start_frame,
                   curveVars,
                   previewVars, frame_current, selected_objects, objects,
                   timers>>

ANIM_OT_NextPreset ==
    /\ run.pc = "idle" /\ preview.pc = "idle"
    /\ selected_objects # <<>>
    /\ preset_enum' =
          PresetItems[next_index(PresetItems,
                          current_index(PresetItems, preset_enum)) + 1]
    /\ result' = "FINISHED"
    /\ UNCHANGED <<aacVars, animation_speed, animation_easing, start_frame,
                   curveVars,
                   previewVars, frame_current, selected_objects, objects,
                   timers>>

CURVE_OT_PrevCurve ==
    /\ run.pc = "idle" /\ preview.pc = "idle"
    /\ selected_objects # <<>>
    /\ settings' = [settings EXCEPT !.curve_enum =
          CurveItems[PrevCurveIndex(CurveItems,
                         current_index(CurveItems, @)) + 1]]
    /\ result' = "FINISHED"
    /\ UNCHANGED <<aacVars, presetVars, previewVars, animation_duration,
                   show_animation_paths, frame_range, curve, run,
                   frame_current, selected_objects, objects, timers>>

CURVE_OT_NextCurve ==
    /\ run.pc = "idle" /\ preview.pc = "idle"
    /\ selected_objects # <<>>
    /\ settings' = [settings EXCEPT !.curve_enum =
          CurveItems[NextCurveIndex(CurveItems,
                         current_index(CurveItems, @)) + 1]]
    /\ result' = "FINISHED"
    /\ UNCHANGED <<aacVars, presetVars, previewVars, animation_duration,
                   show_animation_paths, frame_range, curve, run,
                   frame_current, selected_objects, objects, timers>>

(***************************************************************************)
(* curve_animation.py: CURVE_OT_PreviewAnimation.                          *)
(***************************************************************************)
\* No preview is being executed.
NoPreview == [pc |-> "idle", obj |-> 0]

\* bpy.data.objects.new("Preview_Object", None): an empty.  use_path and
\* path_duration are those of obj.data when the object is a curve.
PreviewObject ==
    [type |-> "EMPTY", material |-> FALSE, hide_viewport |-> FALSE,
     location |-> Vec(0, 0, 0), rotation_euler |-> Vec(0, 0, 0),
     scale |-> Vec(100, 100, 100), keys |-> <<>>, fmodifiers |-> {},
     alpha |-> 100, alpha_keys |-> {}, constraints |-> <<>>,
     modifiers |-> <<>>, use_path |-> FALSE, path_duration |-> 100]

\* preview_obj.select_set(True): the object joins the selection, which
\* keeps the objects that were selected.  Where it stands in
\* context.selected_objects is up to the view layer: first or last.
SelectSet(sel, id, first) == IF first THEN <<id>> \o sel ELSE Append(sel, id)

\* execute up to the call of bpy.ops.curve.apply_animation, which then runs
\* as the steps of CURVE_OT_ApplyCurveAnimation.execute.
PreviewBegin ==
    /\ run.pc = "idle"
    /\ preview.pc = "idle"
    /\ selected_objects # <<>>
    /\ Cardinality(DOMAIN objects) < MaxSelected + MaxPreviews
    /\ Cardinality(timers) < MaxTimers
    /\ \E first \in BOOLEAN :
          LET id == NewId(objects)
          IN  /\ objects' = Link(objects, id, PreviewObject)
              /\ selected_objects' = SelectSet(selected_objects, id, first)
              /\ preview' = [pc |-> "call", obj |-> id]
    /\ UNCHANGED <<aacVars, presetVars, curveVars, frame_current, timers, result,
                   is_animation_playing>>

\* The call has returned.  bpy.ops raises RuntimeError when the operator
\* reported an ERROR, and execute ends there; otherwise the playback is
\* toggled and the cleanup is registered.
PreviewFinish ==
    /\ preview.pc = "called"
    /\ run.pc = "idle"
    /\ IF result = "CANCELLED" \/ run.errors
       THEN /\ result' = "CANCELLED"
            /\ UNCHANGED <<timers, is_animation_playing>>
       ELSE /\ is_animation_playing' = ~is_animation_playing
            /\ timers' = timers \cup
                   {Timer("cleanup_preview", preview.obj, FALSE, <<>>)}
            /\ result' = "FINISHED"
    /\ preview' = NoPreview
    /\ UNCHANGED <<aacVars, presetVars, curveVars, frame_current, selected_objects,
                   objects>>

\* cleanup_preview, run by the timer; it returns None whatever happens, so
\* the timer is not registered again.  raises: reading the screen or
\* cancelling the playback raises, and the except clause only prints.
PreviewTimerFires ==
    \E t \in timers, raises \in BOOLEAN :
        /\ run.pc = "idle"
        /\ preview.pc = "idle"
        /\ t.fn = "cleanup_preview"
        /\ IF t.obj \in DOMAIN objects /\ ~raises
           THEN /\ is_animation_playing' = FALSE
                /\ objects' = Remove(objects, {t.obj})
                /\ selected_objects' =
                       SelectSeq(selected_objects, LAMBDA id : id # t.obj)
           ELSE UNCHANGED <<is_animation_playing, objects, selected_objects>>
        /\ timers' = timers \ {t}
        /\ UNCHANGED <<aacVars, presetVars, curveVars, frame_current, result, preview>>

(***************************************************************************)
(* animate_along_curve.py: ANIM_OT_animate_along_curve, and the fields of  *)
(* its panel.                                                              *)
(***************************************************************************)
\* for c in obj.constraints: if c.type == 'FOLLOW_PATH': remove(c), the
\* collection changing under the iterator as in RemoveWhileIterating.
RECURSIVE RemoveFollowPath(_, _, _)
RemoveFollowPath(cs, k, skip) ==
    IF k > Len(cs) THEN cs
    ELSE IF cs[k].type = "FOLLOW_PATH"
         THEN RemoveFollowPath(
                  SubSeq(cs, 1, k - 1) \o SubSeq(cs, k + 1, Len(cs)),
                  IF skip THEN k + 1 ELSE k, skip)
         ELSE RemoveFollowPath(cs, k + 1, skip)

\* obj.constraints.new(type='FOLLOW_PATH') with name, target and
\* use_curve_follow set.
FollowPathConstraint(cs, target, auto_orient) ==
    [type |-> "FOLLOW_PATH", name |-> UniqueName(cs, "Follow Path"),
     target |-> target, use_curve_follow |-> auto_orient, offset_factor |-> 0]

\* action.fcurves.remove(fc) for the fcurve of data_path.
RemoveFCurve(obj, data_path) ==
    [obj EXCEPT
        !.keys = SelectSeq(@, LAMBDA key : key.data_path # data_path),
        !.fmodifiers = {m \in @ : m.data_path # data_path}]

\* kf.interpolation = 'LINEAR' for the keyframe points of data_path.
SetLinear(obj, data_path) ==
    [obj EXCEPT !.keys =
        [k \in DOMAIN @ |->
            IF @[k].data_path = data_path
            THEN [@[k] EXCEPT !.interpolation = "LINEAR"]
            ELSE @[k]]]

\* The constraints of obj after the removal loop and constraints.new.
ReplaceFollowPath(obj, skip) ==
    LET cs == RemoveFollowPath(obj.constraints, 1, skip)
    IN  Append(cs, FollowPathConstraint(cs, aac.target_curve, aac.auto_orient))

\* The try block on the active object, up to the assignment of the axes.
AddFollowPath(obj, skip) ==
    [obj EXCEPT !.constraints = ReplaceFollowPath(obj, skip)]

\* The rest of the try block on the active object: the fcurve of the offset
\* factor is removed, then keyed at both frames and made linear.
AnimateOffsetFactor(obj) ==
    LET name == obj.constraints[Len(obj.constraints)].name
        o1 == RemoveFCurve(obj, OffsetPath(name))
        o2 == KeyOffsetFactor(o1, name, aac.start_frame, 0)
        o3 == KeyOffsetFactor(o2, name, aac.end_frame, FactorOne)
    IN  SetLinear(o3, OffsetPath(name))

\* poll
AnimateAlongCurvePoll ==
    /\ active_object # 0
    /\ aac.target_curve # 0
    /\ objects[aac.target_curve].type = "CURVE"

\* The try block.  raises: an assignment to the new constraint raises, the
\* except clause reports it and the operator is cancelled with the
\* constraints already replaced.
AnimateInTry(skip, raises) ==
    LET o1 == AddFollowPath(objects[active_object], skip)
        withObj == [objects EXCEPT ![active_object] =
                       IF raises THEN o1 ELSE AnimateOffsetFactor(o1)]
    IN  [objects |-> IF raises THEN withObj
                     ELSE [withObj EXCEPT ![aac.target_curve] =
                             [@ EXCEPT
                                !.use_path = TRUE,
                                !.path_duration =
                                    aac.end_frame - aac.start_frame]],
         result |-> IF raises THEN "CANCELLED" ELSE "FINISHED"]

\* A faulty execute: the frames are not compared.
ExecuteAnyFrames(skip, raises) ==
    IF active_object = 0
    THEN [objects |-> objects, result |-> "CANCELLED"]
    ELSE IF aac.target_curve = 0 \/ objects[aac.target_curve].type # "CURVE"
    THEN [objects |-> objects, result |-> "CANCELLED"]
    ELSE AnimateInTry(skip, raises)

\* execute on the current context: bpy.data.objects and what it returns.
execute(skip, raises) ==
    IF active_object = 0
    THEN [objects |-> objects, result |-> "CANCELLED"]
    ELSE IF aac.target_curve = 0 \/ objects[aac.target_curve].type # "CURVE"
    THEN [objects |-> objects, result |-> "CANCELLED"]
    ELSE IF aac.start_frame >= aac.end_frame
    THEN [objects |-> objects, result |-> "CANCELLED"]
    ELSE AnimateInTry(skip, raises)

invoke(skip, raises) ==
    IF aac.target_curve = 0
    THEN [objects |-> objects, result |-> "CANCELLED"]
    ELSE execute(skip, raises)

\* The operator run from the panel or the menu: poll, then invoke.
ANIM_OT_animate_along_curve ==
    /\ run.pc = "idle" /\ preview.pc = "idle"
    /\ AnimateAlongCurvePoll
    /\ \E skip \in BOOLEAN, raises \in BOOLEAN :
          /\ objects' = invoke(skip, raises).objects
          /\ result' = invoke(skip, raises).result
    /\ UNCHANGED <<aacVars, presetVars, curveVars, previewVars,
                   frame_current, selected_objects, timers>>

\* The Start Frame and End Frame fields of the panel (both have min=1).
AacSetFrames ==
    /\ run.pc = "idle" /\ preview.pc = "idle"
    /\ \E s \in 1..(MaxFrame + 1), e \in 1..(MaxFrame + 1) :
          /\ <<s, e>> # <<aac.start_frame, aac.end_frame>>
          /\ aac' = [aac EXCEPT !.start_frame = s, !.end_frame = e]
    /\ UNCHANGED <<active_object, presetVars, curveVars, previewVars,
                   frame_current, selected_objects, objects, timers, result>>

(***************************************************************************)
(* Initial states.                                                         *)
(***************************************************************************)
\* Speeds of the allowed range 0.1 .. 5.0: 85/256 (duration 90), 179/256
\* (30/speed = 42.9), 1.0, 2.0 and 5.0.
SpeedChoices == {85, 179, 256, 512, 1280}

NewObject(type, material, hide_viewport, location) ==
    [type |-> type, material |-> material, hide_viewport |-> hide_viewport,
     location |-> location, rotation_euler |-> Vec(0, 0, 0),
     scale |-> Vec(100, 100, 100), keys |-> <<>>, fmodifiers |-> {},
     alpha |-> 100, alpha_keys |-> {}, constraints |-> <<>>,
     modifiers |-> <<>>, use_path |-> FALSE, path_duration |-> 100]

ObjectChoices ==
    { NewObject("MESH", FALSE, FALSE, Vec(0, 0, 0)),
      NewObject("MESH", TRUE, TRUE, Vec(150, -50, 25)),
      NewObject("EMPTY", FALSE, FALSE, Vec(150, -50, 25)) }

\* The registered defaults of the curve add-on (loop_offset 1/8 stands for
\* the default 0.1).
DefaultSettings ==
    [curve_enum |-> "Curve Twist", ease_type |-> "SINE", speed_factor |-> 256,
     reverse_direction |-> FALSE, loop_animation |-> FALSE,
     loop_type |-> "REPEAT", loop_offset |-> 1, spacing |-> 1,
     follow_curve |-> TRUE, follow_axis |-> "FORWARD_X", up_axis |-> "UP_Z",
     additional_rotation |-> Vec(0, 0, 0), scale_animation |-> FALSE,
     scale_factor |-> Vec(100, 100, 100)]

NewCurve(linked) ==
    [loaded |-> linked, linked |-> linked, hide_viewport |-> TRUE,
     hide_render |-> TRUE, use_path |-> FALSE]

Idle == [pc |-> "idle", i |-> 0, success_count |-> 0, failed_objects |-> <<>>,
         errors |-> FALSE]

PreviewDefaults ==
    /\ preview = NoPreview
    /\ is_animation_playing = FALSE

\* ui_panel.register: the registered defaults; nothing is active.
AacDefaults ==
    /\ active_object = 0
    /\ aac = [target_curve |-> 0, start_frame |-> 1, end_frame |-> 250,
              auto_orient |-> TRUE]

CurveDefaults ==
    /\ settings = DefaultSettings
    /\ animation_duration = 30
    /\ show_animation_paths = FALSE
    /\ frame_range = [frame_start |-> 1, frame_end |-> 250]
    /\ curve = NewCurve(FALSE)
    /\ run = Idle
    /\ result = "NONE"
    /\ PreviewDefaults

PresetInit ==
    /\ CurveDefaults
    /\ AacDefaults
    /\ preset_enum \in {PresetItems[k] : k \in DOMAIN PresetItems}
    /\ animation_speed \in SpeedChoices
    /\ animation_easing = "BACK"
    /\ start_frame = 1
    /\ frame_current \in 1..MaxFrame
    /\ \E n \in 1..MaxSelected :
          /\ selected_objects = [k \in 1..n |-> k]
          /\ objects \in [1..n -> ObjectChoices]
          /\ \A k \in 3..n : objects[k] = objects[2]
    /\ timers = {}

PresetNext ==
    \/ ANIM_OT_add_preset
    \/ ANIM_OT_reset_animation
    \/ TimerFires

SpecPreset == PresetInit /\ [][PresetNext]_vars

\* The Typewriter preset on meshes that are all visible at first.
TypewriterInit ==
    /\ CurveDefaults
    /\ AacDefaults
    /\ preset_enum = "PRESET_TYPEWRITER"
    /\ animation_speed \in SpeedChoices
    /\ animation_easing = "BACK"
    /\ start_frame = 1
    /\ frame_current \in 1..MaxFrame
    /\ \E n \in 1..MaxSelected :
          /\ selected_objects = [k \in 1..n |-> k]
          /\ objects = [k \in 1..n |-> NewObject("MESH", FALSE, FALSE,
                                                 Vec(k * 100, 0, 0))]
    /\ timers = {}

SpecTypewriter == TypewriterInit /\ [][PresetNext]_vars

\* Durations of the allowed range 10 .. 300, speeds of 0.1 .. 10.0 in 1/256
\* (179/256 = 0.699..), loop offsets of -1.0 .. 1.0 in eighths.
DurationChoices == {30, 31}

CurveSpeedChoices == {179, 256, 512}

LoopOffsetChoices == {-4, 1, 4}

SpacingChoices == {0, 1}

\* The looping settings that matter: loop_type is read only when
\* loop_animation is set, loop_offset only by the Offset policy.
LoopChoices ==
    {l \in [loop_animation : BOOLEAN,
            loop_type : {"REPEAT", "PING_PONG", "OFFSET"},
            loop_offset : LoopOffsetChoices] :
        /\ ~l.loop_animation => l.loop_type = DefaultSettings.loop_type
        /\ l.loop_type # "OFFSET" =>
               l.loop_offset = DefaultSettings.loop_offset}

\* The settings that decide what is keyed, with the other settings at
\* their defaults.
KeyingChoices ==
    {[DefaultSettings EXCEPT
        !.speed_factor = s, !.reverse_direction = r, !.follow_curve = f,
        !.loop_animation = l.loop_animation, !.loop_type = l.loop_type,
        !.loop_offset = l.loop_offset, !.spacing = sp] :
     s \in CurveSpeedChoices, r \in BOOLEAN, f \in BOOLEAN, l \in LoopChoices,
     sp \in SpacingChoices}

\* The additional transformations, with the keying settings at their
\* defaults.
TransformChoices ==
    {[DefaultSettings EXCEPT
        !.follow_curve = f,
        !.additional_rotation = IF x THEN Vec(0, 0, 90) ELSE Vec(0, 0, 0),
        !.scale_animation = y, !.scale_factor = Vec(150, 150, 150)] :
     f \in BOOLEAN, x \in BOOLEAN, y \in BOOLEAN}

CurveInit ==
    /\ preset_enum = PresetItems[1]
    /\ animation_speed = SpeedOne
    /\ animation_easing = "BACK"
    /\ start_frame = 1
    /\ frame_current = MaxFrame
    /\ timers = {}
    /\ \/ /\ settings \in KeyingChoices
          /\ animation_duration \in DurationChoices
          /\ show_animation_paths = FALSE
          /\ curve = NewCurve(FALSE)
       \/ /\ settings \in TransformChoices
          /\ animation_duration = 30
          /\ show_animation_paths \in BOOLEAN
          /\ curve \in {NewCurve(FALSE), NewCurve(TRUE)}
    /\ frame_range = [frame_start |-> 1, frame_end |-> 250]
    /\ run = Idle
    /\ result = "NONE"
    /\ PreviewDefaults
    /\ AacDefaults
    /\ \E n \in 1..MaxSelected :
          /\ selected_objects = [k \in 1..n |-> k]
          /\ objects = [k \in 1..n |-> NewObject("MESH", FALSE, FALSE,
                                                 Vec(k * 100, 0, 0))]

CurveNext ==
    \/ ApplyCurveBegin
    \/ ApplyCurveAnimate
    \/ ApplyCurveFinish
    \/ ApplyCurveReport

SpecCurve == CurveInit /\ [][CurveNext]_vars

(***************************************************************************)
(* Apply Curve Animation on several objects spaced along the curve.        *)
(***************************************************************************)
\* Durations of the allowed range 10 .. 300; 1/49 and 1/98 are not doubles.
SpacedDurations == {30, 49, 98}

\* Spacings of the allowed range 0.0 .. 10.0.
SpacedSpacings == {0, 1, 2}

SpacedInit ==
    /\ preset_enum = PresetItems[1]
    /\ animation_speed = SpeedOne
    /\ animation_easing = "BACK"
    /\ start_frame = 1
    /\ frame_current = 1
    /\ timers = {}
    /\ settings \in {[DefaultSettings EXCEPT
                         !.speed_factor = s, !.spacing = sp,
                         !.follow_curve = f] :
                      s \in CurveSpeedChoices, sp \in SpacedSpacings,
                      f \in BOOLEAN}
    /\ animation_duration \in SpacedDurations
    /\ show_animation_paths = FALSE
    /\ curve = NewCurve(FALSE)
    /\ frame_range = [frame_start |-> 1, frame_end |-> 250]
    /\ run = Idle
    /\ result = "NONE"
    /\ PreviewDefaults
    /\ AacDefaults
    /\ \E n \in 1..(MaxSelected + 1) :
          /\ selected_objects = [k \in 1..n |-> k]
          /\ objects = [k \in 1..n |-> NewObject("MESH", FALSE, FALSE,
                                                 Vec(k * 100, 0, 0))]

SpecSpaced == SpacedInit /\ [][CurveNext]_vars

(***************************************************************************)
(* Preview Curve Animation, with Apply Curve Animation as the user's own   *)
(* operator and as the operator the preview calls.                         *)
(***************************************************************************)
PreviewInit ==
    /\ preset_enum = PresetItems[1]
    /\ animation_speed = SpeedOne
    /\ animation_easing = "BACK"
    /\ start_frame = 1
    /\ frame_current = MaxFrame
    /\ timers = {}
    /\ settings \in {[DefaultSettings EXCEPT !.follow_curve = f] :
                        f \in BOOLEAN}
    /\ animation_duration = 30
    /\ show_animation_paths = FALSE
    /\ curve = NewCurve(FALSE)
    /\ frame_range = [frame_start |-> 1, frame_end |-> 250]
    /\ run = Idle
    /\ result = "NONE"
    /\ preview = NoPreview
    /\ is_animation_playing \in BOOLEAN
    /\ AacDefaults
    /\ \E n \in 1..MaxSelected :
          /\ selected_objects = [k \in 1..n |-> k]
          /\ objects = [k \in 1..n |-> NewObject("MESH", FALSE, FALSE,
                                                 Vec(k * 100, 0, 0))]

PreviewNext ==
    \/ PreviewBegin
    \/ CurveNext
    \/ PreviewFinish
    \/ PreviewTimerFires

SpecPreview == PreviewInit /\ [][PreviewNext]_vars

(***************************************************************************)
(* Animate Along Curve on an object that carries constraints already.      *)
(***************************************************************************)
ConstraintTypes == {"FOLLOW_PATH", "LIMIT_LOCATION"}

\* The name Blender gave the k-th constraint when it was added: that of its
\* type, numbered after the constraints of the type before it.
NameInStack(types, k) ==
    LET base == IF types[k] = "FOLLOW_PATH" THEN "Follow Path"
                ELSE "Limit Location"
        before == Cardinality({j \in 1..(k - 1) : types[j] = types[k]})
    IN  IF before = 0 THEN base
        ELSE IF before = 1 THEN base \o ".001"
        ELSE base \o ".002"

\* The stacks of at most MaxConstraints constraints, none with a target.
ConstraintStacks ==
    UNION {{[k \in 1..n |->
               [type |-> types[k], name |-> NameInStack(types, k),
                target |-> 0, use_curve_follow |-> FALSE,
                offset_factor |-> 0]] :
            types \in [1..n -> ConstraintTypes]} : n \in 0..MaxConstraints}

AlongInit ==
    /\ CurveDefaults
    /\ preset_enum = PresetItems[1]
    /\ animation_speed = SpeedOne
    /\ animation_easing = "BACK"
    /\ start_frame = 1
    /\ frame_current = 1
    /\ selected_objects = <<1>>
    /\ timers = {}
    /\ active_object \in {0, 1}
    /\ \E target \in {0, 2}, auto_orient \in BOOLEAN :
          aac = [target_curve |-> target, start_frame |-> 1,
                 end_frame |-> MaxFrame, auto_orient |-> auto_orient]
    /\ \E cs \in ConstraintStacks, type \in {"CURVE", "MESH"} :
          objects = [k \in 1..2 |->
              IF k = 1
              THEN [NewObject("MESH", FALSE, FALSE, Vec(0, 0, 0))
                        EXCEPT !.constraints = cs]
              ELSE NewObject(type, FALSE, FALSE, Vec(0, 0, 0))]

AlongNext ==
    \/ ANIM_OT_animate_along_curve
    \/ AacSetFrames

SpecAlong == AlongInit /\ [][AlongNext]_vars

(***************************************************************************)
(* The two navigators, from any entry of either list.                      *)
(***************************************************************************)
NavigateInit ==
    /\ CurveDefaults
    /\ AacDefaults
    /\ preset_enum \in {PresetItems[k] : k \in DOMAIN PresetItems}
    /\ animation_speed = SpeedOne
    /\ animation_easing = "BACK"
    /\ start_frame = 1
    /\ frame_current = 1
    /\ selected_objects = <<1>>
    /\ objects = [k \in 1..1 |-> NewObject("MESH", FALSE, FALSE, Vec(0, 0, 0))]
    /\ timers = {}

NavigateNext ==
    \/ ANIM_OT_PrevPreset
    \/ ANIM_OT_NextPreset
    \/ CURVE_OT_PrevCurve
    \/ CURVE_OT_NextCurve

SpecNavigate == NavigateInit /\ [][NavigateNext]_vars

(***************************************************************************)
(* Apply Preset and Apply Curve Animation on the same objects (the presets *)
(* that work on the objects themselves, without copies and timers).        *)
(***************************************************************************)
AddonInit ==
    /\ preset_enum \in {"PRESET_A", "PRESET_ELASTIC"}
    /\ animation_speed \in SpeedChoices
    /\ animation_easing = "BACK"
    /\ start_frame = 1
    /\ frame_current = MaxFrame
    /\ timers = {}
    /\ settings \in {[DefaultSettings EXCEPT !.speed_factor = s] :
                        s \in CurveSpeedChoices}
    /\ animation_duration \in DurationChoices
    /\ show_animation_paths = FALSE
    /\ curve = NewCurve(FALSE)
    /\ frame_range = [frame_start |-> 1, frame_end |-> 250]
    /\ run = Idle
    /\ result = "NONE"
    /\ PreviewDefaults
    /\ AacDefaults
    /\ \E n \in 1..MaxSelected :
          /\ selected_objects = [k \in 1..n |-> k]
          /\ objects = [k \in 1..n |-> NewObject("MESH", FALSE, FALSE,
                                                 Vec(k * 100, 0, 0))]

AddonNext ==
    \/ ANIM_OT_add_preset
    \/ ANIM_OT_reset_animation
    \/ CurveNext

SpecAddon == AddonInit /\ [][AddonNext]_vars

(***************************************************************************)
(* Properties of Apply Preset.                                             *)
(***************************************************************************)
Column(table, c) == [k \in DOMAIN table |-> table[k][c]]

\* The time fractions of the table of a preset, in hundredths.
TimePcts(preset) ==
    CASE preset = "PRESET_A" -> <<0, 40, 70, 100>>
      [] preset = "PRESET_B" -> Column(FadeSlideKeyframes, 1)
      [] preset = "PRESET_C" -> Column(BouncyRevealKeyframes, 1)
      [] preset = "PRESET_ROTATE_POP" -> Column(RotatePopKeyframes, 1)
      [] preset = "PRESET_BOUNCE_IN" -> Column(BounceInKeyframes, 1)
      [] preset = "PRESET_SLIDE_FROM_SIDE" -> Column(SlideFromSideKeyframes, 1)
      [] preset = "PRESET_FALL_FROM_SKY" -> Column(FallFromSkyKeyframes, 1)
      [] preset = "PRESET_FLIP_REVEAL" -> Column(FlipRevealKeyframes, 1)
      [] preset = "PRESET_TYPEWRITER" -> Column(TypewriterKeyframes, 1)
      [] preset = "PRESET_PULSE" -> Column(PulseKeyframes, 1)
      [] preset = "PRESET_ELASTIC" -> Column(ElasticTimings, 1)
      [] preset = "PRESET_STAGGER" -> Column(StaggerKeyframes, 1)

\* The scale samples of the table of a preset.
ScaleValues(preset) ==
    CASE preset = "PRESET_A" ->
             << Vec(0, 0, 0), Vec(120, 120, 120), Vec(90, 90, 90),
                Vec(100, 100, 100) >>
      [] preset = "PRESET_B" -> Column(FadeSlideKeyframes, 4)
      [] preset = "PRESET_C" -> Column(BouncyRevealKeyframes, 2)
      [] preset = "PRESET_ROTATE_POP" -> Column(RotatePopKeyframes, 3)
      [] preset = "PRESET_BOUNCE_IN" -> Column(BounceInKeyframes, 3)
      [] preset = "PRESET_SLIDE_FROM_SIDE" -> Column(SlideFromSideKeyframes, 4)
      [] preset = "PRESET_FALL_FROM_SKY" -> Column(FallFromSkyKeyframes, 3)
      [] preset = "PRESET_FLIP_REVEAL" -> Column(FlipRevealKeyframes, 3)
      [] preset = "PRESET_TYPEWRITER" -> Column(TypewriterKeyframes, 2)
      [] preset = "PRESET_PULSE" -> Column(PulseKeyframes, 2)
      [] preset = "PRESET_ELASTIC" -> Column(ElasticTimings, 2)
      [] preset = "PRESET_STAGGER" -> Column(StaggerKeyframes, 2)

\* The objects a step of Apply Preset keyframes: the selected objects, or
\* the copies it links.  No other step writes keyframes while no curve
\* animation is being applied.
KeyedInStep(id) ==
    /\ run.pc = "idle" /\ run'.pc = "idle"
    /\ id \in DOMAIN objects'
    /\ objects'[id].keys # <<>>
    /\ id \in DOMAIN objects => objects'[id].keys # objects[id].keys

\* The duration Apply Preset works with: the truncated quotient 30 / speed.
PresetDuration == (30 * 256) \div animation_speed

\* The sample of keyframe j when every sample of the table is keyed on the
\* same number of channels.
SampleOf(keys, pcts, j) == ((j - 1) \div (Len(keys) \div Len(pcts))) + 1

ScaleKeys(keys) == SelectSeq(keys, LAMBDA k : k.data_path = "scale")

\* keys are the samples of the table of preset, each at the frame
\* start + floor(duration * t), the scale values unchanged, in table order.
KeyedByTable(keys, preset, start, duration) ==
    LET pcts == TimePcts(preset)
        scale == ScaleKeys(keys)
    IN  /\ Len(keys) % Len(pcts) = 0
        /\ \A j \in DOMAIN keys :
              keys[j].frame =
                  start + ((duration * pcts[SampleOf(keys, pcts, j)]) \div 100)
        /\ Len(scale) = Len(pcts)
        /\ \A k \in DOMAIN scale : scale[k].value = ScaleValues(preset)[k]

\* C1: every sample of the table of a (non-staggered) preset is keyed at
\* start_frame + floor(effective_duration * t), with its value unchanged and
\* in table order.
C1_SamplesAtFloorOfProduct ==
    [][\A id \in DOMAIN objects' :
          (KeyedInStep(id) /\ preset_enum # "PRESET_STAGGER") =>
              KeyedByTable(objects'[id].keys, preset_enum, frame_current,
                           PresetDuration)]_vars

\* C10: for every non-staggered preset the sample with time fraction 0.0 is
\* keyed at start_frame and the sample with time fraction 1.0 at
\* start_frame + effective_duration.
C10_FirstAndLastSample ==
    [][\A id \in DOMAIN objects' :
          (KeyedInStep(id) /\ preset_enum # "PRESET_STAGGER") =>
              LET keys == objects'[id].keys
                  pcts == TimePcts(preset_enum)
              IN  /\ Len(keys) % Len(pcts) = 0
                  /\ \A j \in DOMAIN keys :
                        /\ pcts[SampleOf(keys, pcts, j)] = 0 =>
                              keys[j].frame = frame_current
                        /\ pcts[SampleOf(keys, pcts, j)] = 100 =>
                              keys[j].frame = frame_current + PresetDuration]_vars

\* Fall From Sky at speed 85/256 (duration 90) is keyed from the current
\* frame to 90 frames later.
C10_Witness ==
    /\ preset_enum = "PRESET_FALL_FROM_SKY"
    /\ animation_speed = 85
    /\ \E id \in DOMAIN objects :
          /\ Len(objects[id].keys) = 2 * Len(FallFromSkyKeyframes)
          /\ objects[id].keys[1].frame = frame_current
          /\ objects[id].keys[Len(objects[id].keys)].frame = frame_current + 90

\* The rows of the Staggered table kept for copy i, and their shifted
\* fractions, in exact arithmetic.
ShiftedPcts(i) ==
    SelectSeq([k \in DOMAIN StaggerKeyframes |->
                  StaggerKeyframes[k][1] + 20 * i],
              LAMBDA pct : pct <= 100)

\* C3: copy i of the Staggered preset is keyed with the samples whose
\* shifted fraction t + 0.2*i is at most 1.0, at start_frame +
\* floor(duration * (t + 0.2*i)); the copies get 5, 4 and 3 samples.
C3_StaggeredCopies ==
    [][\A t \in timers' \ timers :
          t.fn = "cleanup_all" =>
              \A i \in 0..2 :
                  LET keys == objects'[t.copies[i + 1]].keys
                      pcts == ShiftedPcts(i)
                      scale == ScaleKeys(keys)
                  IN  /\ Len(pcts) = 5 - i
                      /\ Len(scale) = Len(pcts)
                      /\ Len(keys) = 3 * Len(pcts)
                      /\ \A j \in DOMAIN keys :
                            keys[j].frame = frame_current +
                                ((PresetDuration * pcts[((j - 1) \div 3) + 1])
                                     \div 100)]_vars

\* The frame of the fraction pct/100 of the effective duration, counted
\* from the current frame.
ExactFrame(pct) == frame_current + ((PresetDuration * pct) \div 100)

\* The points of a set of keyframe points that lie at frame f.
PointsAt(points, f) == {p \in points : p.frame = f}

\* The samples a < b of the table of the preset map to the same frame, and b
\* is the last sample that maps to it.
Collide(pcts, a, b) ==
    /\ a < b
    /\ ExactFrame(pcts[a]) = ExactFrame(pcts[b])
    /\ \A c \in DOMAIN pcts :
          c > b => ExactFrame(pcts[c]) # ExactFrame(pcts[b])

\* C11: when two samples of the table of a preset map to the same frame,
\* the scale channel (and, for Fall From Sky, the location channel) has one
\* keyframe at that frame, holding the value of the sample that comes later
\* in the table.
C11_LastSampleWins ==
    [][\A id \in DOMAIN objects' :
          (KeyedInStep(id) /\ preset_enum # "PRESET_STAGGER") =>
              LET pcts == TimePcts(preset_enum)
                  scale == keyframe_points(objects'[id].keys, "scale")
                  location == keyframe_points(objects'[id].keys, "location")
              IN  \A a, b \in DOMAIN pcts :
                      Collide(pcts, a, b) =>
                          LET f == ExactFrame(pcts[b])
                          IN  /\ Cardinality(PointsAt(scale, f)) = 1
                              /\ \A p \in PointsAt(scale, f) :
                                    p.value = ScaleValues(preset_enum)[b]
                              /\ preset_enum = "PRESET_FALL_FROM_SKY" =>
                                    /\ Cardinality(PointsAt(location, f)) = 1
                                    /\ \A p \in PointsAt(location, f) :
                                          p.value[3] = objects[id].location[3]
                                              + FallFromSkyKeyframes[b][2]]_vars

\* Fall From Sky at speed 5.0 (duration 6): the samples 0.85 and 0.92 were
\* both keyed at the current frame + 5, seven samples gave six scale points,
\* and the point at that frame has the scale of the sample 0.92.
C11_Witness ==
    /\ preset_enum = "PRESET_FALL_FROM_SKY"
    /\ animation_speed = 1280
    /\ \E id \in DOMAIN objects :
          /\ Len(ScaleKeys(objects[id].keys)) = 7
          /\ Cardinality(keyframe_points(objects[id].keys, "scale")) = 6
          /\ \E p \in keyframe_points(objects[id].keys, "scale") :
                p.frame = frame_current + 5 /\ p.value = Vec(110, 110, 90)

\* The effective durations of the allowed speeds 0.1 .. 5.0: int(30 / speed).
ReachableDurations == 6..300

NonDecreasing(frames) ==
    \A k \in DOMAIN frames : k > 1 => frames[k - 1] <= frames[k]

\* The frames of the table of every preset, and of the shifted tables of the
\* three Staggered copies, are in order for every reachable duration.
TablesInOrder ==
    \A d \in ReachableDurations :
        /\ \A k \in DOMAIN PresetItems :
              NonDecreasing([j \in DOMAIN TimePcts(PresetItems[k]) |->
                                FrameAt(0, d, TimePcts(PresetItems[k])[j])])
        /\ \A i \in 0..(num_copies - 1) :
              NonDecreasing([j \in DOMAIN KeptRows(i) |->
                                IntMul(d, AdjustedTime(KeptRows(i)[j][1], i))])

\* C12: the frames at which Apply Preset inserts the keyframes of an object
\* (or of a copy), in the order of the insertions, never decrease; this
\* holds for the table of every preset at every effective duration the
\* allowed speeds give.
C12_FramesNonDecreasing ==
    [][/\ TablesInOrder
       /\ \A id \in DOMAIN objects' :
             KeyedInStep(id) =>
                 NonDecreasing([j \in DOMAIN objects'[id].keys |->
                                   objects'[id].keys[j].frame])]_vars

\* Slide From Side at speed 85/256 (duration 90): eighteen keyframes were
\* inserted, the first at the current frame and the last three 90 later.
C12_Witness ==
    /\ preset_enum = "PRESET_SLIDE_FROM_SIDE"
    /\ animation_speed = 85
    /\ \E id \in DOMAIN objects :
          /\ Len(objects[id].keys) = 3 * Len(SlideFromSideKeyframes)
          /\ objects[id].keys[1].frame = frame_current
          /\ \A j \in 16..18 : objects[id].keys[j].frame = frame_current + 90

\* C17: the meshes were all visible before the first Apply Preset; once
\* every scheduled cleanup has run, each of them is visible again and the
\* scene holds no copy.
C17_HiddenFlagRestored ==
    timers = {} =>
        /\ DOMAIN objects = 1..Len(selected_objects)
        /\ \A id \in DOMAIN objects : ~objects[id].hide_viewport

(***************************************************************************)
(* Properties of Apply Curve Animation.  apply_animation has just returned *)
(* for the object in hand when run.pc = "animated".                        *)
(***************************************************************************)
InHand == objects[selected_objects[run.i + 1]]

\* The points of the offset_factor fcurve of the follow constraint, as
\* <<frame, factor>> pairs in insertion order.
OffsetPoints(obj) ==
    LET keys == SelectSeq(obj.keys, LAMBDA k :
                    k.data_path = "constraints[\"Follow Path\"].offset_factor")
    IN  [k \in DOMAIN keys |-> <<keys[k].frame, keys[k].value[1]>>]

\* The start frame of the object: where apply_animation keys its location.
StartFrameOf(obj) ==
    (CHOOSE k \in {obj.keys[j] : j \in DOMAIN obj.keys} :
        k.data_path = "location").frame

\* The duration Apply Curve Animation works with: the truncated quotient
\* animation_duration / speed_factor.
CurveDuration == (animation_duration * 256) \div settings.speed_factor

StartFactor == IF settings.reverse_direction THEN 8 ELSE 0

EndFactor == IF settings.reverse_direction THEN 0 ELSE 8

Clamp01(f) == IF f < 0 THEN 0 ELSE IF f > 8 THEN 8 ELSE f

\* round(a / b) as Python rounds: to the nearest integer, halves to even.
RoundDiv(a, b) ==
    LET q == a \div b
        r == a % b
    IN  IF 2 * r > b \/ (2 * r = b /\ q % 2 = 1) THEN q + 1 ELSE q

LastFrame(keys) == keys[Len(keys)].frame

\* C2 as stated: the effective duration of Apply Preset and of Apply Curve
\* Animation is round(duration_frames / speed_factor).
C2_RoundedDuration ==
    [][/\ \A id \in DOMAIN objects' :
             KeyedInStep(id) =>
                 LastFrame(objects'[id].keys) - frame_current =
                     RoundDiv(30 * 256, animation_speed)
       /\ (run.pc = "animated" =>
              OffsetPoints(InHand)[2][1] - OffsetPoints(InHand)[1][1] =
                  RoundDiv(animation_duration * 256, settings.speed_factor))'
      ]_vars

\* C2, amended: the effective duration of Apply Preset and of Apply Curve
\* Animation is duration_frames / speed_factor truncated to an integer
\* (int(), the floor of the positive quotient), never rounded up; speed 2.0
\* gives the floor of half the duration.
C2_TruncatedDuration ==
    [][/\ \A id \in DOMAIN objects' :
             KeyedInStep(id) =>
                 LastFrame(objects'[id].keys) - frame_current =
                     (30 * 256) \div animation_speed
       /\ (run.pc = "animated" =>
              OffsetPoints(InHand)[2][1] - OffsetPoints(InHand)[1][1] =
                  (animation_duration * 256) \div settings.speed_factor)'
      ]_vars

\* Duration 31 at speed 2.0: the animation of the object in hand spans 15
\* frames (15.5 truncated).
C2_Witness ==
    /\ run.pc = "animated"
    /\ animation_duration = 31
    /\ settings.speed_factor = 512
    /\ OffsetPoints(InHand)[2][1] - OffsetPoints(InHand)[1][1] = 15

\* C4 as stated: with loop type Offset the offset factor is keyed at the
\* start frame with the start value, then for i in 1..3 at start_frame +
\* i*duration with clamp01(end + i*loop_offset), end being 1.0 forward and
\* 0.0 in reverse.
C4_OffsetCycles ==
    (run.pc = "animated" /\ settings.loop_animation
        /\ settings.loop_type = "OFFSET") =>
    LET s == StartFrameOf(InHand)
        d == CurveDuration
        cycle(i) == <<s + i * d, Clamp01(EndFactor + i * settings.loop_offset)>>
    IN  OffsetPoints(InHand) = << <<s, StartFactor>>, cycle(1), cycle(2),
                                  cycle(3) >>

\* C5: with loop type Ping Pong exactly three offset-factor points are
\* keyed: the start value at the object's start frame, the end value one
\* duration later, the start value two durations later.
C5_PingPongPoints ==
    (run.pc = "animated" /\ settings.loop_animation
        /\ settings.loop_type = "PING_PONG") =>
    LET s == StartFrameOf(InHand)
        d == CurveDuration
    IN  OffsetPoints(InHand) = << <<s, StartFactor>>, <<s + d, EndFactor>>,
                                  <<s + 2 * d, StartFactor>> >>

\* Forward, duration 30 at speed 1.0: the points (1, 0.0), (31, 1.0),
\* (61, 0.0), that is offsets 0, 30 and 60 from the start frame 1.
C5_Witness ==
    /\ run.pc = "animated"
    /\ settings.loop_animation /\ settings.loop_type = "PING_PONG"
    /\ OffsetPoints(InHand) = << <<1, 0>>, <<31, 8>>, <<61, 0>> >>

\* C6: with loop type Repeat exactly two offset-factor points are keyed,
\* the start value at the start frame and the end value one duration later,
\* and the offset-factor curve gets a cycles modifier repeating before and
\* after.
C6_RepeatPoints ==
    (run.pc = "animated" /\ settings.loop_animation
        /\ settings.loop_type = "REPEAT") =>
    LET s == StartFrameOf(InHand)
        d == CurveDuration
    IN  /\ OffsetPoints(InHand) = << <<s, StartFactor>>, <<s + d, EndFactor>> >>
        /\ InHand.fmodifiers =
              {[data_path |-> "constraints[\"Follow Path\"].offset_factor",
                type |-> "CYCLES", mode_before |-> "REPEAT",
                mode_after |-> "REPEAT"]}

\* Reverse, duration 30 at speed 2.0: the points (1, 1.0) and (16, 0.0) and
\* the modifier.
C6_Witness ==
    /\ run.pc = "animated"
    /\ settings.loop_animation /\ settings.loop_type = "REPEAT"
    /\ OffsetPoints(InHand) = << <<1, 8>>, <<16, 0>> >>
    /\ Cardinality(InHand.fmodifiers) = 1

\* C7: once execute has passed its validation the scene's frame range ends
\* at the total duration: the duration without loop or with Repeat, twice
\* the duration with Ping Pong, four times with Offset.
C7_TotalDuration ==
    (run.pc # "idle" \/ result # "NONE") =>
    /\ frame_range.frame_start = 1
    /\ frame_range.frame_end =
          CASE settings.loop_animation /\ settings.loop_type = "PING_PONG" ->
                   2 * animation_duration
            [] settings.loop_animation /\ settings.loop_type = "OFFSET" ->
                   4 * animation_duration
            [] OTHER -> animation_duration

\* Duration 30 with the Offset policy: the frame range ends at 120.
C7_Witness ==
    /\ run.pc = "loop"
    /\ settings.loop_animation /\ settings.loop_type = "OFFSET"
    /\ animation_duration = 30
    /\ frame_range.frame_end = 120

\* C8: every offset factor that is keyed, and the factor the constraint is
\* left with, lies in [0, 1]; the clamping does not fail the object.
C8_FactorsInRange ==
    /\ \A id \in DOMAIN objects :
          /\ \A k \in DOMAIN OffsetPoints(objects[id]) :
                OffsetPoints(objects[id])[k][2] \in 0..8
          /\ \A k \in DOMAIN objects[id].constraints :
                objects[id].constraints[k].offset_factor \in 0..8
    /\ run.pc = "animated" =>
          \A k \in DOMAIN run.failed_objects :
              run.failed_objects[k] # selected_objects[run.i + 1]

\* Forward with loop_offset 0.5: 1.0 + 0.5*i is clamped to 1.0 in the
\* cycles 1, 2 and 3.
C8_Witness ==
    /\ run.pc = "animated"
    /\ settings.loop_animation /\ settings.loop_type = "OFFSET"
    /\ ~settings.reverse_direction /\ settings.loop_offset = 4
    /\ Len(OffsetPoints(InHand)) = 4
    /\ \A k \in 2..4 : OffsetPoints(InHand)[k][2] = 8

\* C9: the loop handles every selected object whatever happens to the
\* others: the objects handled so far are each counted once, as a success
\* or as a failure, and at the report success_count + len(failed_objects)
\* is the number of selected objects.
C9_EveryObjectCounted ==
    LET failed == {run.failed_objects[k] : k \in DOMAIN run.failed_objects}
        handled == {selected_objects[k] : k \in 1..run.i}
    IN  /\ run.pc \in {"loop", "animated"} => run.i < Len(selected_objects)
        /\ run.pc # "idle" =>
              /\ run.success_count + Len(run.failed_objects) = run.i
              /\ Cardinality(failed) = Len(run.failed_objects)
              /\ failed \subseteq handled
              /\ \A id \in handled \ failed :
                    \E k \in DOMAIN objects[id].constraints :
                        objects[id].constraints[k].type = "FOLLOW_PATH"
        /\ run.pc = "report" =>
              /\ run.i = Len(selected_objects)
              /\ run.success_count + Len(run.failed_objects) =
                     Len(selected_objects)

\* The first of two objects failed, the second was animated all the same.
C9_Witness ==
    /\ run.pc = "report"
    /\ Len(selected_objects) = 2
    /\ run.failed_objects = <<1>>
    /\ run.success_count = 1

StartOf(obj) == OffsetPoints(obj)[1][1]

\* C22: with several objects selected the object at index i, once
\* animated, starts at frame 1 + floor(((i * spacing) / duration) *
\* effective_duration); no object animated before it and still keyed
\* starts later, and object 0 starts at frame 1; with one object selected
\* or spacing 0 the object starts at frame 1.
C22_StartFrameWithSpacing ==
    run.pc = "animated" =>
    LET i == run.i
        several == Len(selected_objects) > 1
    IN  /\ several =>
              StartOf(InHand) =
                  1 + ((i * settings.spacing * CurveDuration)
                          \div animation_duration)
        /\ \A j \in 1..i :
              OffsetPoints(objects[selected_objects[j]]) # <<>> =>
                  StartOf(objects[selected_objects[j]]) <= StartOf(InHand)
        /\ i = 0 => StartOf(InHand) = 1
        /\ (~several \/ settings.spacing = 0) => StartOf(InHand) = 1

\* The places of the constraints of a type in the constraint stack.
PlacesOf(cs, type) == {k \in DOMAIN cs : cs[k].type = type}

\* C18: with follow_curve set, the object setup_constraints has returned
\* has a Track To and a Follow Path constraint, the Track To before the
\* Follow Path in the stack.
C18_TrackToBeforeFollowPath ==
    (run.pc = "animated" /\ settings.follow_curve) =>
        /\ PlacesOf(InHand.constraints, "TRACK_TO") # {}
        /\ PlacesOf(InHand.constraints, "FOLLOW_PATH") # {}
        /\ \A i \in PlacesOf(InHand.constraints, "TRACK_TO"),
              j \in PlacesOf(InHand.constraints, "FOLLOW_PATH") : i < j

(***************************************************************************)
(* Properties of the navigators.                                           *)
(***************************************************************************)
\* The place (from 0) of an identifier in a list of distinct identifiers.
PlaceIn(items, identifier) ==
    (CHOOSE i \in DOMAIN items : items[i] = identifier) - 1

RECURSIVE NextTimes(_, _, _)
\* The index reached from i by n executions of Next Preset.
NextTimes(items, i, n) ==
    IF n = 0 THEN i ELSE NextTimes(items, next_index(items, i), n - 1)

RECURSIVE NextCurveTimes(_, _, _)
\* The index reached from i by n executions of Next Curve.
NextCurveTimes(items, i, n) ==
    IF n = 0 THEN i ELSE NextCurveTimes(items, NextCurveIndex(items, i), n - 1)

\* C19: in both navigators Next takes the selection from index i to
\* (i + 1) mod 12 and Previous to (i - 1) mod 12; from the entry reached,
\* Next then Previous and Previous then Next lead back to it, and so do 12
\* executions of Next.
C19_NavigatorsWrap ==
    [][LET p == PlaceIn(PresetItems, preset_enum)
           q == PlaceIn(PresetItems, preset_enum')
           c == PlaceIn(CurveItems, settings.curve_enum)
           d == PlaceIn(CurveItems, settings'.curve_enum)
       IN  /\ Len(PresetItems) = 12 /\ Len(CurveItems) = 12
           /\ ANIM_OT_NextPreset => q = (p + 1) % 12 /\ d = c
           /\ ANIM_OT_PrevPreset => q = (p + 11) % 12 /\ d = c
           /\ CURVE_OT_NextCurve => d = (c + 1) % 12 /\ q = p
           /\ CURVE_OT_PrevCurve => d = (c + 11) % 12 /\ q = p
           /\ prev_index(PresetItems, next_index(PresetItems, q)) = q
           /\ next_index(PresetItems, prev_index(PresetItems, q)) = q
           /\ PrevCurveIndex(CurveItems, NextCurveIndex(CurveItems, d)) = d
           /\ NextCurveIndex(CurveItems, PrevCurveIndex(CurveItems, d)) = d
           /\ NextTimes(PresetItems, q, 12) = q
           /\ NextCurveTimes(CurveItems, d, 12) = d]_vars

\* Previous has wrapped from the first preset to the last one, and Next from
\* the last curve to the first one.
C19_Witness ==
    /\ preset_enum = PresetItems[12]
    /\ settings.curve_enum = CurveItems[1]
    /\ result = "FINISHED"

(***************************************************************************)
(* Properties of Animate Along Curve.                                      *)
(***************************************************************************)
FollowPaths(obj) ==
    {k \in DOMAIN obj.constraints : obj.constraints[k].type = "FOLLOW_PATH"}

\* The keyframe points of the offset factor of constraint k, as
\* <<frame, value>>.
OffsetFactorPoints(obj, k) ==
    {<<p.frame, p.value>> :
        p \in keyframe_points(obj.keys, OffsetPath(obj.constraints[k].name))}

\* C20: when Animate Along Curve returns FINISHED, the active object has
\* exactly one Follow Path constraint, its target is the chosen curve, and
\* its offset factor has exactly two keyframes, 0.0 at start_frame and 1.0
\* at end_frame.
C20_OneFollowPathTwoKeys ==
    [][(ANIM_OT_animate_along_curve /\ result' = "FINISHED") =>
          LET obj == objects'[active_object]
          IN  /\ Cardinality(FollowPaths(obj)) = 1
              /\ \A k \in FollowPaths(obj) :
                    /\ obj.constraints[k].target = aac.target_curve
                    /\ OffsetFactorPoints(obj, k) =
                          {<<aac.start_frame, <<0>> >>,
                           <<aac.end_frame, <<FactorOne>> >>}]_vars

\* The cases in which execute gives up before the try block.
NothingToAnimate ==
    \/ active_object = 0
    \/ aac.target_curve = 0
    \/ objects[aac.target_curve].type # "CURVE"
    \/ aac.start_frame >= aac.end_frame

\* C21: with no active object, with no target or a target that is not a
\* curve, or with start_frame >= end_frame, invoke and execute return
\* CANCELLED and leave every object as it is (constraints, animation data,
\* path settings of the curve); a run of the operator in such a state
\* changes nothing but the result.
C21_CancelledLeavesUnchanged ==
    [][NothingToAnimate =>
          /\ \A skip \in BOOLEAN, raises \in BOOLEAN :
                /\ execute(skip, raises).result = "CANCELLED"
                /\ execute(skip, raises).objects = objects
                /\ invoke(skip, raises).result = "CANCELLED"
                /\ invoke(skip, raises).objects = objects
          /\ ANIM_OT_animate_along_curve =>
                result' = "CANCELLED" /\ objects' = objects]_vars

\* The operator has been cancelled for its frames on an object that had
\* been animated before: constraint and keyframes are still there.
C21_Witness ==
    /\ active_object # 0
    /\ aac.start_frame >= aac.end_frame
    /\ result = "CANCELLED"
    /\ objects[active_object].keys # <<>>
    /\ objects[aac.target_curve].use_path

(***************************************************************************)
(* Properties of Preview Curve Animation.                                  *)
(***************************************************************************)
\* C13: while Preview Curve Animation is executed, the constraints, the
\* modifiers, the rotation and the animation data of every object but the
\* temporary preview object stay as they are.
C13_PreviewTouchesOnlyPreviewObject ==
    [][preview.pc # "idle" =>
          \A id \in DOMAIN objects \ {preview.obj} :
              /\ id \in DOMAIN objects'
              /\ objects'[id].constraints = objects[id].constraints
              /\ objects'[id].modifiers = objects[id].modifiers
              /\ objects'[id].rotation_euler = objects[id].rotation_euler
              /\ objects'[id].keys = objects[id].keys
              /\ objects'[id].fmodifiers = objects[id].fmodifiers]_vars

\* The temporary preview objects in the scene.
PreviewObjects(objs) == {id \in DOMAIN objs : objs[id].type = "EMPTY"}

\* C14: once Preview Curve Animation has been executed, every preview object
\* in the scene has its cleanup scheduled, so that it will be removed; the
\* run of a scheduled cleanup leaves its preview object out of the scene
\* and the playback stopped, takes its timer out of the registry and
\* registers none.
C14_PreviewCleanedUpOnce ==
    [][/\ \A t \in timers \ timers' :
             t.fn = "cleanup_preview" =>
                 /\ t.obj \notin DOMAIN objects'
                 /\ ~is_animation_playing'
                 /\ timers' \subseteq timers
       /\ preview'.pc = "idle" =>
             \A id \in PreviewObjects(objects') :
                 \E t \in timers' : t.fn = "cleanup_preview" /\ t.obj = id
      ]_vars

====
